---- MODULE Spec2Model ----
(***************************************************************************)
(* The chat turn of src/app.py (chat / chat.generate): the multi-round     *)
(* tool-calling loop, the accumulation of streamed tool-call fragments,    *)
(* the session store and the tool dispatch of src/tools/_registry.py.      *)
(*                                                                         *)
(* Texts (answer text, reasoning text, argument text) are sequences of     *)
(* tokens; identifiers and names are strings; Python's None is None.       *)
(***************************************************************************)
EXTENDS Integers, Sequences, FiniteSets, TLC

VARIABLES
    sessions,   \* app.py `sessions`: session id -> session object (a reference)
    objs,       \* the session dicts ever allocated, by reference
    turn,       \* per chat request: the locals of chat() and generate()
    events,     \* per chat request: the SSE events yielded to the caller
    stream,     \* per chat request: what the provider's open stream still holds
    requests,   \* per chat request: the model requests issued so far
    API_KEY,    \* app.py API_KEY: whether the process was started with a key
    arrived,    \* per chat request: the chunks consumed in the current round
    env,        \* per chat request: how much unconstrained behaviour is left
    dispatched, \* per chat request: the call_tool invocations made so far
    reply,      \* the response of the last session-store request handled
    st,         \* run.py: st.session_state and the locals of the script's loop
    collector,  \* tools/_simulator.py: _started, _stop and the collector threads
    logs,       \* the rows of table logs, in insertion order
    workers     \* per thread: the tool calls of one round it runs on the database

vars == <<sessions, objs, turn, events, stream, requests, API_KEY, arrived, env,
          dispatched, reply, st, collector, logs, workers>>

\* the state of the chat handlers of app.py, and the state beside it
ChatVars == <<sessions, objs, turn, events, stream, requests, API_KEY, arrived, env,
              dispatched, reply>>
NonChatVars == <<st, collector, logs, workers>>

-----------------------------------------------------------------------------
(* Bounds of the model *)

\* rounds of one turn in which the model's response and the handlers'
\* outcome are unconstrained; in the other rounds the model answers with one
\* of the two standard responses and the handlers succeed
MaxVaried == 1
\* accumulator specification: chunks of one streamed response
MaxChunks == 3
\* two-surface specification: rounds the provider answers before it fails
MaxPlan == 2
\* collector specification: calls of start_collector and stop_collector
MaxCalls == 3
\* log specification: tool calls dispatched in one round
MaxRoundCalls == 3
\* session-store specification: session objects ever created
MaxObjs == 2

(* Program constants *)

MaxRounds == 10

None == "None"
SYSTEM == <<"system prompt">>

Sids == {"s1"}
Turns == {1, 2}

-----------------------------------------------------------------------------
(* Sequence helpers *)

Last(s) == s[Len(s)]

Min(S) == CHOOSE x \in S : \A y \in S : x <= y
Max(S) == CHOOSE x \in S : \A y \in S : x >= y

-----------------------------------------------------------------------------
(* The session store *)

\* a session is created with an empty transcript
NewSessionNoSystem ==
    [msgs             |-> <<>>,
     tool_names       |-> <<>>,
     reasoning        |-> FALSE,
     reasoning_effort |-> "medium"]

NewSession ==
    [msgs             |-> <<[role |-> "system", content |-> SYSTEM, tool_calls |-> <<>>,
                             tool_call_id |-> None, reasoning_content |-> <<>>, by |-> 0]>>,
     tool_names       |-> <<>>,
     reasoning        |-> FALSE,
     reasoning_effort |-> "medium"]

\* get_session(sid): the store and the heap after the call; the reference
\* returned is GetSessionRef
GetSessionStore(sid) ==
    IF sid \in DOMAIN sessions THEN sessions
    ELSE sessions @@ (sid :> Len(objs) + 1)
GetSessionObjs(sid) ==
    IF sid \in DOMAIN sessions THEN objs ELSE Append(objs, NewSession)
\* every caller is handed the session created first
GetSessionRefShared(sid) == IF objs = <<>> THEN Len(objs) + 1 ELSE 1
GetSessionRef(sid) ==
    IF sid \in DOMAIN sessions THEN sessions[sid] ELSE Len(objs) + 1

\* dict assignment d[k] = v on a dict kept as a function
DictSet(d, k, v) == [x \in (DOMAIN d) \cup {k} |-> IF x = k THEN v ELSE d[x]]

-----------------------------------------------------------------------------
(* Messages.  A message is a dict with the keys its role carries; here all  *)
(* keys are present and an absent key holds its empty value.  `by` is the   *)
(* chat request that appended the message (0: the session's creation).      *)
(* content <<>> is Python's None of `full_content or None`.                 *)

UserMsg(t, content) ==
    [role |-> "user", content |-> content, tool_calls |-> <<>>,
     tool_call_id |-> None, reasoning_content |-> <<>>, by |-> t]

AssistantMsg(t, full_content, tool_calls_list, full_reasoning) ==
    [role |-> "assistant", content |-> full_content, tool_calls |-> tool_calls_list,
     tool_call_id |-> None, reasoning_content |-> full_reasoning, by |-> t]

ToolMsg(t, id, result) ==
    [role |-> "tool", content |-> result, tool_calls |-> <<>>,
     tool_call_id |-> id, reasoning_content |-> <<>>, by |-> t]

sse_event(kind, data) == [event |-> kind, data |-> data]

-----------------------------------------------------------------------------
(* Fragment accumulation: the body of `for chunk in stream` *)

EmptyAcc == [full_content |-> <<>>, full_reasoning |-> <<>>, tool_calls_dict |-> <<>>]

\* one tc_chunk of delta.tool_calls applied to tool_calls_dict
ApplyFragmentOverwriteArgs(d, f) ==
    LET d1 == IF f.index \in DOMAIN d THEN d
              ELSE DictSet(d, f.index, [id |-> None, name |-> None, arguments |-> <<>>])
        e  == d1[f.index]
    IN  DictSet(d1, f.index,
                [id        |-> IF f.id # None THEN f.id ELSE e.id,
                 name      |-> IF f.name # None THEN f.name ELSE e.name,
                 arguments |-> IF f.arguments # <<>> THEN f.arguments ELSE e.arguments])

ApplyFragment(d, f) ==
    LET d1 == IF f.index \in DOMAIN d THEN d
              ELSE DictSet(d, f.index, [id |-> None, name |-> None, arguments |-> <<>>])
        e  == d1[f.index]
    IN  DictSet(d1, f.index,
                [id        |-> IF f.id # None THEN f.id ELSE e.id,
                 name      |-> IF f.name # None THEN f.name ELSE e.name,
                 arguments |-> e.arguments \o f.arguments])

RECURSIVE ApplyFragments(_, _)
ApplyFragments(d, fs) ==
    IF fs = <<>> THEN d ELSE ApplyFragments(ApplyFragment(d, Head(fs)), Tail(fs))

\* one chunk applied to the accumulators; a chunk without choices or with
\* delta None is skipped
ApplyChunkOverwriteText(acc, c) ==
    IF ~c.has_delta THEN acc
    ELSE [full_content    |-> IF c.content # <<>> THEN c.content ELSE acc.full_content,
          full_reasoning  |-> acc.full_reasoning \o c.reasoning_content,
          tool_calls_dict |-> ApplyFragments(acc.tool_calls_dict, c.tool_calls)]

ApplyChunk(acc, c) ==
    IF ~c.has_delta THEN acc
    ELSE [full_content    |-> acc.full_content \o c.content,
          full_reasoning  |-> acc.full_reasoning \o c.reasoning_content,
          tool_calls_dict |-> ApplyFragments(acc.tool_calls_dict, c.tool_calls)]

\* no reasoning_delta is yielded
ChunkEventsDropReasoning(c) ==
    IF ~c.has_delta THEN <<>>
    ELSE IF c.content # <<>> THEN <<sse_event("text_delta", c.content)>> ELSE <<>>

\* the events one chunk yields
ChunkEvents(c) ==
    IF ~c.has_delta THEN <<>>
    ELSE (IF c.reasoning_content # <<>>
             THEN <<sse_event("reasoning_delta", c.reasoning_content)>> ELSE <<>>)
         \o (IF c.content # <<>>
             THEN <<sse_event("text_delta", c.content)>> ELSE <<>>)

\* sorted(tool_calls_dict.items()) made into the list of calls
RECURSIVE ToolCallsListDescending(_)
ToolCallsListDescending(d) ==
    IF DOMAIN d = {} THEN <<>>
    ELSE LET k == Max(DOMAIN d)
         IN  <<[id |-> d[k].id, name |-> d[k].name, arguments |-> d[k].arguments]>>
             \o ToolCallsListDescending([x \in (DOMAIN d) \ {k} |-> d[x]])

RECURSIVE ToolCallsList(_)
ToolCallsList(d) ==
    IF DOMAIN d = {} THEN <<>>
    ELSE LET k == Min(DOMAIN d)
         IN  <<[id |-> d[k].id, name |-> d[k].name, arguments |-> d[k].arguments]>>
             \o ToolCallsList([x \in (DOMAIN d) \ {k} |-> d[x]])

-----------------------------------------------------------------------------
(* Argument text and tool dispatch.  Argument text is made of the tokens    *)
(* "{" and "}", a member token ("z": the members the handler requires,      *)
(* "q": a member the handler does not accept) and "n" (the literal null).   *)

Members == {"z", "q"}

\* whether json.loads(text) returns (TRUE) or raises JSONDecodeError (FALSE)
JsonParses(text) ==
    \/ text = <<"n">>
    \/ /\ Len(text) >= 2
       /\ text[1] = "{"
       /\ text[Len(text)] = "}"
       /\ \A k \in 2..(Len(text) - 1) : text[k] \in Members

\* the value json.loads(text) returns when it returns
JsonLoads(text) ==
    IF text = <<"n">> THEN [kind |-> "null", keys |-> {}]
    ELSE [kind |-> "dict", keys |-> {text[k] : k \in 2..(Len(text) - 1)}]

\* ToolRegistry._entries: the registered names; the parameters of a handler
Registered == {"water_zone", "write_log"}
Accepted(name) == {"z"}

TOOL_DISPLAY_NAMES(name) == IF name \in Registered THEN "display:" \o name ELSE name

\* json.dumps of a payload, and json.loads of such a string
JsonDumps(payload) == <<"json">> \o payload
JsonLoadsResult(result) == Tail(result)

\* fn(**args) under the try of ToolRegistry.call: "ok" when the handler
\* returns, the message of the exception when the call raises.  `outcome` is
\* what the handler body does once entered ("ok", or it raises "db error").
HandlerCall(name, args, outcome) ==
    IF args.kind # "dict" THEN "TypeError: not a mapping"
    ELSE IF args.keys # Accepted(name) THEN "TypeError: arguments"
    ELSE outcome

\* ToolRegistry.call(name, args) / call_tool(name, args).  raised TRUE: the
\* exception leaves call_tool.
CallToolNoTry(name, args, outcome) ==
    IF name \notin Registered
    THEN [raised |-> FALSE, result |-> JsonDumps(<<"error", "unknown tool", name>>)]
    ELSE LET r == HandlerCall(name, args, outcome)
         IN  IF r = "ok"
             THEN [raised |-> FALSE, result |-> JsonDumps(<<"ok", name>>)]
             ELSE [raised |-> TRUE, result |-> <<>>]

CallToolKeyError(name, args, outcome) ==
    IF name \notin Registered
    THEN [raised |-> TRUE, result |-> <<>>]
    ELSE LET r == HandlerCall(name, args, outcome)
         IN  IF r = "ok"
             THEN [raised |-> FALSE, result |-> JsonDumps(<<"ok", name>>)]
             ELSE [raised |-> FALSE, result |-> JsonDumps(<<"error", r>>)]

call_tool(name, args, outcome) ==
    IF name \notin Registered
    THEN [raised |-> FALSE, result |-> JsonDumps(<<"error", "unknown tool", name>>)]
    ELSE LET r == HandlerCall(name, args, outcome)
         IN  IF r = "ok"
             THEN [raised |-> FALSE, result |-> JsonDumps(<<"ok", name>>)]
             ELSE [raised |-> FALSE, result |-> JsonDumps(<<"error", r>>)]

-----------------------------------------------------------------------------
(* The provider's responses: a response is the sequence of chunks of its    *)
(* stream.                                                                  *)

Frag(index, id, name, arguments) ==
    [index |-> index, id |-> id, name |-> name, arguments |-> arguments]

TextChunk(x) ==
    [has_delta |-> TRUE, reasoning_content |-> <<>>, content |-> <<x>>, tool_calls |-> <<>>]
ReasoningChunk(x) ==
    [has_delta |-> TRUE, reasoning_content |-> <<x>>, content |-> <<>>, tool_calls |-> <<>>]
ToolChunk(fs) ==
    [has_delta |-> TRUE, reasoning_content |-> <<>>, content |-> <<>>, tool_calls |-> fs]
KeepAlive ==
    [has_delta |-> FALSE, reasoning_content |-> <<>>, content |-> <<>>, tool_calls |-> <<>>]

GoodArgs == <<"{", "z", "}">>

\* the two standard responses: a text-only answer, and one well-formed call
\* of a registered tool under an identifier of its own
RoundIds == <<"c0", "c1", "c2", "c3", "c4", "c5", "c6", "c7", "c8", "c9">>
StdText == <<TextChunk("t")>>
StdTool(round) ==
    <<ToolChunk(<<Frag(0, RoundIds[(round % 10) + 1], "water_zone", GoodArgs)>>)>>

\* the responses of an unconstrained round
Responses == {
    \* reasoning, then a text in two pieces
    <<ReasoningChunk("r"), TextChunk("t"), TextChunk("u")>>,
    \* nothing at all
    <<KeepAlive>>,
    \* one call whose argument text arrives in two fragments
    <<ToolChunk(<<Frag(0, "a", "water_zone", <<"{">>)>>),
      ToolChunk(<<Frag(0, None, None, <<"z", "}">>)>>)>>,
    \* one call whose argument text is cut short
    <<TextChunk("t"), ToolChunk(<<Frag(0, "a", "water_zone", <<"{", "z">>)>>)>>,
    \* a malformed call followed by a well-formed one
    <<ToolChunk(<<Frag(0, "a", "write_log", <<"{">>),
                  Frag(2, "b", "water_zone", GoodArgs)>>)>>,
    \* index 1 (an unregistered tool) arrives before index 0
    <<ToolChunk(<<Frag(1, "b", "no_such_tool", <<"{", "}">>)>>),
      ToolChunk(<<Frag(0, "a", "water_zone", GoodArgs)>>)>>,
    \* argument names the handler does not accept, then arguments that are
    \* no mapping
    <<ToolChunk(<<Frag(0, "a", "water_zone", <<"{", "q", "}">>),
                  Frag(1, "b", "write_log", <<"n">>)>>)>>,
    \* a call without identifier and without name
    <<ToolChunk(<<Frag(0, None, None, <<"{", "}">>)>>)>>,
    \* two calls under one identifier
    <<ToolChunk(<<Frag(0, "a", "water_zone", GoodArgs),
                  Frag(1, "a", "write_log", GoodArgs)>>)>>
}

-----------------------------------------------------------------------------
(* State *)

NoArgs == [kind |-> None, keys |-> {}]

\* a JSON response of a session-store handler: the keys a handler does not
\* send hold their empty value
NoReply ==
    [handler |-> None, status |-> 0, session_id |-> None, ok |-> FALSE,
     messages |-> <<>>, reasoning |-> FALSE, reasoning_effort |-> None,
     error |-> FALSE]

\* the caller of a chat request is still reading the response; otherwise: how
\* many events had been yielded, and where the turn stood, when it went away
NotGone == [at |-> -1, round |-> 0, pc |-> None]

IdleTurn ==
    [pc |-> "idle", session |-> 0, reasoning_on |-> FALSE, round |-> 0,
     acc |-> EmptyAcc, tool_calls_list |-> <<>>, i |-> 0, fn_args |-> NoArgs,
     result |-> <<>>, status |-> 0, exc |-> None, sid |-> "", gone |-> NotGone]

\* run.py before a prompt is entered: st.session_state.msgs holds the system
\* message; `plan` is what the provider and the handlers will do in the
\* rounds to come
IdleScript ==
    [pc |-> "idle", plan |-> <<>>, msgs |-> NewSession.msgs, tool_names |-> <<>>,
     round |-> 0, stream |-> <<>>, full_content |-> <<>>, tool_calls_dict |-> <<>>,
     tool_calls_list |-> <<>>, i |-> 0, exc |-> None]

\* the threads that call start_collector and stop_collector
Callers == {1, 2}

\* tools/_simulator.py as imported: _started False, _stop clear, _lock free,
\* no collector thread; `log` is the calls made so far
NoCollector ==
    [started |-> FALSE, stop |-> FALSE, lock |-> 0,
     pcs |-> [c \in Callers |-> "idle"], threads |-> <<>>, log |-> <<>>]

\* a thread with no tool calls to run
\* a thread that has dispatched no tool call of its round yet
IdleWorker == [calls |-> <<>>, results |-> <<>>]

NonChatInit ==
    /\ st = IdleScript
    /\ collector = NoCollector
    /\ logs = <<>>
    /\ workers = [t \in Turns |-> IdleWorker]

Init ==
    /\ sessions = <<>>
    /\ objs = <<>>
    /\ turn = [t \in Turns |-> IdleTurn]
    /\ events = [t \in Turns |-> <<>>]
    /\ stream = [t \in Turns |-> <<>>]
    /\ requests = [t \in Turns |-> <<>>]
    /\ API_KEY \in BOOLEAN
    /\ arrived = [t \in Turns |-> <<>>]
    /\ env = [t \in Turns |-> [varied |-> MaxVaried, free |-> FALSE]]
    /\ dispatched = [t \in Turns |-> <<>>]
    /\ reply = NoReply
    /\ NonChatInit

Msgs(t) == objs[turn[t].session].msgs
Emit(t, evs) == events' = [events EXCEPT ![t] = @ \o evs]

\* str.strip() on a text whose whitespace is the token " "
RECURSIVE LStrip(_)
LStrip(s) == IF s # <<>> /\ Head(s) = " " THEN LStrip(Tail(s)) ELSE s
RECURSIVE RStrip(_)
RStrip(s) == IF s # <<>> /\ Last(s) = " " THEN RStrip(SubSeq(s, 1, Len(s) - 1)) ELSE s
Strip(s) == RStrip(LStrip(s))

-----------------------------------------------------------------------------
(* chat(): the request handler up to the start of the streamed response *)

\* get_session(sid) is called before the request is validated
ChatSessionFirst(t, sid, body_content) ==
    /\ turn[t].pc = "idle"
    /\ LET content == Strip(body_content)
           ref     == GetSessionRef(sid)
       IN  /\ sessions' = GetSessionStore(sid)
           /\ IF ~API_KEY
              THEN /\ turn' = [turn EXCEPT ![t].pc = "rejected", ![t].status = 500]
                   /\ objs' = GetSessionObjs(sid)
              ELSE IF sid = "" \/ content = <<>>
              THEN /\ turn' = [turn EXCEPT ![t].pc = "rejected", ![t].status = 400]
                   /\ objs' = GetSessionObjs(sid)
              ELSE /\ objs' = [GetSessionObjs(sid) EXCEPT
                                  ![ref].msgs = Append(@, UserMsg(t, content))]
                   /\ turn' = [turn EXCEPT ![t].pc = "create",
                                           ![t].session = ref,
                                           ![t].sid = sid,
                                           ![t].reasoning_on = GetSessionObjs(sid)[ref].reasoning,
                                           ![t].round = 0]
    /\ UNCHANGED <<events, stream, requests, API_KEY, arrived, env, dispatched, reply, NonChatVars>>

Chat(t, sid, body_content) ==
    /\ turn[t].pc = "idle"
    /\ LET content == Strip(body_content)
           ref     == GetSessionRef(sid)
       IN  IF ~API_KEY
           THEN /\ turn' = [turn EXCEPT ![t].pc = "rejected", ![t].status = 500]
                /\ UNCHANGED <<sessions, objs>>
           ELSE IF sid = "" \/ content = <<>>
           THEN /\ turn' = [turn EXCEPT ![t].pc = "rejected", ![t].status = 400]
                /\ UNCHANGED <<sessions, objs>>
           ELSE /\ sessions' = GetSessionStore(sid)
                /\ objs' = [GetSessionObjs(sid) EXCEPT
                               ![ref].msgs = Append(@, UserMsg(t, content))]
                /\ turn' = [turn EXCEPT ![t].pc = "create",
                                        ![t].session = ref,
                                        ![t].sid = sid,
                                        ![t].reasoning_on = GetSessionObjs(sid)[ref].reasoning,
                                        ![t].round = 0]
    /\ UNCHANGED <<events, stream, requests, API_KEY, arrived, env, dispatched, reply, NonChatVars>>

-----------------------------------------------------------------------------
(* generate(): one action per stretch of code between two suspensions *)

\* _build_llm_kwargs(session)
BuildLlmKwargs(session) ==
    [model    |-> IF session.reasoning THEN "REASONING_MODEL" ELSE "MODEL",
     messages |-> session.msgs,
     effort   |-> IF session.reasoning THEN session.reasoning_effort ELSE None]

\* `continue` in place of `return`
CreateFailsContinue(t) ==
    /\ turn[t].pc = "create"
    /\ requests' = [requests EXCEPT ![t] = Append(@, BuildLlmKwargs(objs[turn[t].session]))]
    /\ Emit(t, <<sse_event("error", <<"create failed">>)>>)
    /\ turn' = [turn EXCEPT ![t].round = @ + 1,
                            ![t].pc = IF turn[t].round + 1 < MaxRounds
                                      THEN "create" ELSE "finish"]
    /\ UNCHANGED <<sessions, objs, stream, API_KEY, arrived, env, dispatched, reply, NonChatVars>>

\* client.chat.completions.create raises: one error event, return
CreateFails(t) ==
    /\ turn[t].pc = "create"
    /\ requests' = [requests EXCEPT ![t] = Append(@, BuildLlmKwargs(objs[turn[t].session]))]
    /\ Emit(t, <<sse_event("error", <<"create failed">>)>>)
    /\ turn' = [turn EXCEPT ![t].pc = "returned"]
    /\ UNCHANGED <<sessions, objs, stream, API_KEY, arrived, env, dispatched, reply, NonChatVars>>

\* client.chat.completions.create returns a stream
CreateOk(t, resp, free) ==
    /\ turn[t].pc = "create"
    /\ requests' = [requests EXCEPT ![t] = Append(@, BuildLlmKwargs(objs[turn[t].session]))]
    /\ stream' = [stream EXCEPT ![t] = resp]
    /\ arrived' = [arrived EXCEPT ![t] = <<>>]
    /\ env' = [env EXCEPT ![t] = [varied |-> IF free THEN @.varied - 1 ELSE @.varied,
                                  free   |-> free]]
    /\ turn' = [turn EXCEPT ![t].pc = "stream", ![t].acc = EmptyAcc]
    /\ UNCHANGED <<sessions, objs, events, API_KEY, dispatched, reply, NonChatVars>>

\* one iteration of `for chunk in stream`
ConsumeChunk(t, c, rest) ==
    /\ turn[t].pc = "stream"
    /\ turn' = [turn EXCEPT ![t].acc = ApplyChunk(@, c)]
    /\ Emit(t, ChunkEvents(c))
    /\ arrived' = [arrived EXCEPT ![t] = Append(@, c)]
    /\ stream' = [stream EXCEPT ![t] = rest]
    /\ UNCHANGED <<sessions, objs, requests, API_KEY, env, dispatched, reply, NonChatVars>>

\* the stream's iterator raises: the exception leaves generate()
StreamRaises(t) ==
    /\ turn[t].pc = "stream"
    /\ turn' = [turn EXCEPT ![t].pc = "raised", ![t].exc = "stream"]
    /\ UNCHANGED <<sessions, objs, events, stream, requests, API_KEY, arrived, env,
                 dispatched, reply, NonChatVars>>

\* the stream is exhausted: reasoning_done and text_done
StreamEnd(t) ==
    /\ turn[t].pc = "stream"
    /\ stream[t] = <<>>
    /\ Emit(t, (IF turn[t].acc.full_reasoning # <<>>
                   THEN <<sse_event("reasoning_done", turn[t].acc.full_reasoning)>>
                   ELSE <<>>)
               \o (IF turn[t].acc.full_content # <<>>
                   THEN <<sse_event("text_done", turn[t].acc.full_content)>>
                   ELSE <<>>))
    /\ turn' = [turn EXCEPT ![t].pc = "commit"]
    /\ UNCHANGED <<sessions, objs, stream, requests, API_KEY, arrived, env,
                 dispatched, reply, NonChatVars>>

\* done is yielded inside the loop, before the break
CommitDoneInLoop(t) ==
    /\ turn[t].pc = "commit"
    /\ LET list == ToolCallsList(turn[t].acc.tool_calls_dict)
           msg  == AssistantMsg(t, turn[t].acc.full_content, list,
                                turn[t].acc.full_reasoning)
       IN  /\ objs' = [objs EXCEPT ![turn[t].session].msgs = Append(@, msg)]
           /\ IF list = <<>>
              THEN /\ Emit(t, <<sse_event("round_done", <<>>),
                                sse_event("done", <<turn[t].reasoning_on>>)>>)
                   /\ turn' = [turn EXCEPT ![t].pc = "finish", ![t].tool_calls_list = list]
              ELSE /\ events' = events
                   /\ turn' = [turn EXCEPT ![t].pc = "tool_start", ![t].i = 1,
                                           ![t].tool_calls_list = list]
    /\ UNCHANGED <<sessions, stream, requests, API_KEY, arrived, env, dispatched, reply, NonChatVars>>

\* the assistant message is stored over the last message of the transcript
CommitOverLast(t) ==
    /\ turn[t].pc = "commit"
    /\ LET list == ToolCallsList(turn[t].acc.tool_calls_dict)
           msg  == AssistantMsg(t, turn[t].acc.full_content, list,
                                turn[t].acc.full_reasoning)
       IN  /\ objs' = [objs EXCEPT ![turn[t].session].msgs = [@ EXCEPT ![Len(@)] = msg]]
           /\ IF list = <<>>
              THEN /\ Emit(t, <<sse_event("round_done", <<>>)>>)
                   /\ turn' = [turn EXCEPT ![t].pc = "finish", ![t].tool_calls_list = list]
              ELSE /\ events' = events
                   /\ turn' = [turn EXCEPT ![t].pc = "tool_start", ![t].i = 1,
                                           ![t].tool_calls_list = list]
    /\ UNCHANGED <<sessions, stream, requests, API_KEY, arrived, env, dispatched, reply, NonChatVars>>

\* the call list is built and the assistant message appended; without calls
\* round_done is yielded and the loop left
Commit(t) ==
    /\ turn[t].pc = "commit"
    /\ LET list == ToolCallsList(turn[t].acc.tool_calls_dict)
           msg  == AssistantMsg(t, turn[t].acc.full_content, list,
                                turn[t].acc.full_reasoning)
       IN  /\ objs' = [objs EXCEPT ![turn[t].session].msgs = Append(@, msg)]
           /\ IF list = <<>>
              THEN /\ Emit(t, <<sse_event("round_done", <<>>)>>)
                   /\ turn' = [turn EXCEPT ![t].pc = "finish", ![t].tool_calls_list = list]
              ELSE /\ events' = events
                   /\ turn' = [turn EXCEPT ![t].pc = "tool_start", ![t].i = 1,
                                           ![t].tool_calls_list = list]
    /\ UNCHANGED <<sessions, stream, requests, API_KEY, arrived, env,
                 dispatched, reply, NonChatVars>>

\* tool_start is yielded for the first call of a round only
ToolStartFirstOnly(t) ==
    /\ turn[t].pc = "tool_start"
    /\ LET tc == turn[t].tool_calls_list[turn[t].i]
       IN  IF JsonParses(tc.arguments)
           THEN /\ turn' = [turn EXCEPT ![t].pc = "tool_call",
                                        ![t].fn_args = JsonLoads(tc.arguments)]
                /\ Emit(t, IF turn[t].i = 1
                           THEN <<sse_event("tool_start",
                                            <<tc.id, tc.name, TOOL_DISPLAY_NAMES(tc.name)>>)>>
                           ELSE <<>>)
           ELSE /\ turn' = [turn EXCEPT ![t].pc = "raised", ![t].exc = "json"]
                /\ events' = events
    /\ UNCHANGED <<sessions, objs, stream, requests, API_KEY, arrived, env,
                   dispatched, reply, NonChatVars>>

\* json.loads of the argument text (not under a try), then tool_start
ToolStart(t) ==
    /\ turn[t].pc = "tool_start"
    /\ LET tc == turn[t].tool_calls_list[turn[t].i]
       IN  IF JsonParses(tc.arguments)
           THEN /\ turn' = [turn EXCEPT ![t].pc = "tool_call",
                                        ![t].fn_args = JsonLoads(tc.arguments)]
                /\ Emit(t, <<sse_event("tool_start",
                                       <<tc.id, tc.name, TOOL_DISPLAY_NAMES(tc.name)>>)>>)
           ELSE /\ turn' = [turn EXCEPT ![t].pc = "raised", ![t].exc = "json"]
                /\ events' = events
    /\ UNCHANGED <<sessions, objs, stream, requests, API_KEY, arrived, env,
                 dispatched, reply, NonChatVars>>

\* call_tool, then tool_done
ToolCall(t, outcome) ==
    /\ turn[t].pc = "tool_call"
    /\ LET tc == turn[t].tool_calls_list[turn[t].i]
           r  == call_tool(tc.name, turn[t].fn_args, outcome)
       IN  /\ dispatched' = [dispatched EXCEPT ![t] =
                                 Append(@, [round |-> turn[t].round, i |-> turn[t].i,
                                            name |-> tc.name, msgs |-> Len(Msgs(t))])]
           /\ IF r.raised
              THEN /\ turn' = [turn EXCEPT ![t].pc = "raised", ![t].exc = "call_tool"]
                   /\ events' = events
              ELSE /\ turn' = [turn EXCEPT ![t].pc = "tool_record", ![t].result = r.result]
                   /\ Emit(t, <<sse_event("tool_done",
                                          <<tc.id, tc.name, TOOL_DISPLAY_NAMES(tc.name)>>
                                          \o JsonLoadsResult(r.result))>>)
    /\ UNCHANGED <<sessions, objs, stream, requests, API_KEY, arrived, env, reply, NonChatVars>>

\* the tool-result message is appended but the name is not recorded
ToolRecordNoName(t) ==
    /\ turn[t].pc = "tool_record"
    /\ LET tc == turn[t].tool_calls_list[turn[t].i]
           s  == turn[t].session
       IN  objs' = [objs EXCEPT
                       ![s].msgs = Append(@, ToolMsg(t, tc.id, turn[t].result))]
    /\ turn' = IF turn[t].i < Len(turn[t].tool_calls_list)
               THEN [turn EXCEPT ![t].pc = "tool_start", ![t].i = @ + 1]
               ELSE [turn EXCEPT ![t].pc = "round_done"]
    /\ UNCHANGED <<sessions, events, stream, requests, API_KEY, arrived, env,
                   dispatched, reply, NonChatVars>>

\* the name is recorded but no tool-result message is appended
ToolRecordNoAppend(t) ==
    /\ turn[t].pc = "tool_record"
    /\ LET tc == turn[t].tool_calls_list[turn[t].i]
           s  == turn[t].session
       IN  objs' = [objs EXCEPT ![s].tool_names = DictSet(@, tc.id, tc.name)]
    /\ turn' = IF turn[t].i < Len(turn[t].tool_calls_list)
               THEN [turn EXCEPT ![t].pc = "tool_start", ![t].i = @ + 1]
               ELSE [turn EXCEPT ![t].pc = "round_done"]
    /\ UNCHANGED <<sessions, events, stream, requests, API_KEY, arrived, env,
                   dispatched, reply, NonChatVars>>

\* the name is recorded and the tool-result message appended
ToolRecord(t) ==
    /\ turn[t].pc = "tool_record"
    /\ LET tc == turn[t].tool_calls_list[turn[t].i]
           s  == turn[t].session
       IN  objs' = [objs EXCEPT
                       ![s].tool_names = DictSet(@, tc.id, tc.name),
                       ![s].msgs = Append(@, ToolMsg(t, tc.id, turn[t].result))]
    /\ turn' = IF turn[t].i < Len(turn[t].tool_calls_list)
               THEN [turn EXCEPT ![t].pc = "tool_start", ![t].i = @ + 1]
               ELSE [turn EXCEPT ![t].pc = "round_done"]
    /\ UNCHANGED <<sessions, events, stream, requests, API_KEY, arrived, env,
                 dispatched, reply, NonChatVars>>

\* for _round in range(10): whether another iteration follows iteration `round`
LoopContinuesOffByOne(round) == round + 1 <= MaxRounds
LoopContinues(round) == round + 1 < MaxRounds

\* no round_done after the tools of a round
RoundDoneSilent(t) ==
    /\ turn[t].pc = "round_done"
    /\ events' = events
    /\ turn' = [turn EXCEPT ![t].round = @ + 1,
                            ![t].pc = IF LoopContinues(turn[t].round)
                                      THEN "create" ELSE "finish"]
    /\ UNCHANGED <<sessions, objs, stream, requests, API_KEY, arrived, env,
                   dispatched, reply, NonChatVars>>

\* round_done after the tools, then the next iteration of range(10)
RoundDone(t) ==
    /\ turn[t].pc = "round_done"
    /\ Emit(t, <<sse_event("round_done", <<>>)>>)
    /\ turn' = [turn EXCEPT ![t].round = @ + 1,
                            ![t].pc = IF LoopContinues(turn[t].round)
                                      THEN "create" ELSE "finish"]
    /\ UNCHANGED <<sessions, objs, stream, requests, API_KEY, arrived, env,
                 dispatched, reply, NonChatVars>>

\* the done event after the loop
Finish(t) ==
    /\ turn[t].pc = "finish"
    /\ Emit(t, <<sse_event("done", <<turn[t].reasoning_on>>)>>)
    /\ turn' = [turn EXCEPT ![t].pc = "done"]
    /\ UNCHANGED <<sessions, objs, stream, requests, API_KEY, arrived, env,
                 dispatched, reply, NonChatVars>>

-----------------------------------------------------------------------------
(* One chat request against one session *)

Contents == {<<"hi">>, <<" ", "hi", " ">>, <<" ">>}
Outcomes(t) == IF env[t].free THEN {"ok", "db error"} ELSE {"ok"}

\* a round in which the model gives one of the standard responses
CreateStandard(t) ==
    /\ turn[t].pc = "create"
    /\ \E resp \in {StdText, StdTool(turn[t].round)} : CreateOk(t, resp, FALSE)

\* a round in which the model and the handlers are unconstrained
CreateVaried(t) ==
    /\ env[t].varied > 0
    /\ \E resp \in Responses : CreateOk(t, resp, TRUE)

StreamNext(t) ==
    /\ stream[t] # <<>>
    /\ ConsumeChunk(t, Head(stream[t]), Tail(stream[t]))

Next ==
    \E t \in {1} :
        \/ \E sid \in Sids \cup {""}, c \in Contents : Chat(t, sid, c)
        \/ CreateFails(t)
        \/ CreateStandard(t)
        \/ CreateVaried(t)
        \/ StreamNext(t)
        \/ StreamRaises(t)
        \/ StreamEnd(t)
        \/ Commit(t)
        \/ ToolStart(t)
        \/ \E o \in Outcomes(t) : ToolCall(t, o)
        \/ ToolRecord(t)
        \/ RoundDone(t)
        \/ Finish(t)

Spec == Init /\ [][Next]_vars

-----------------------------------------------------------------------------
(* Properties of one turn *)

EventKinds(t) == [k \in 1..Len(events[t]) |-> events[t][k].event]
CountEvents(t, kind) == Cardinality({k \in 1..Len(events[t]) : events[t][k].event = kind})
Started(t) == turn[t].session # 0
Ended(t) == turn[t].pc \in {"done", "returned", "raised"}

\* the position of the last assistant message of a transcript (0: none)
LastAssistant(msgs) ==
    LET S == {k \in 1..Len(msgs) : msgs[k].role = "assistant"}
    IN  IF S = {} THEN 0 ELSE Max(S)

\* the call a tool-result message at position k answers: the call at the
\* same offset in the assistant message before it
CallOf(msgs, k) ==
    LET a == LastAssistant(SubSeq(msgs, 1, k)) IN msgs[a].tool_calls[k - a]

\* C1: one turn issues at most MaxRounds (10) model requests whatever the
\* model answers; the loop is left after round 10 also when that round
\* requested tools, and a turn that ran into the round limit ends with the
\* done event and without any error event.
C1_BoundedRounds ==
    \A t \in Turns :
        /\ Len(requests[t]) <= MaxRounds
        /\ turn[t].pc = "create" => turn[t].round < MaxRounds
        /\ turn[t].round <= MaxRounds
        /\ turn[t].round = MaxRounds =>
              /\ turn[t].pc \in {"finish", "done"}
              /\ Len(requests[t]) = MaxRounds
              /\ CountEvents(t, "error") = 0
              /\ turn[t].pc = "done" => Last(events[t]).event = "done"

C1_Witness ==
    /\ turn[1].pc = "done"
    /\ turn[1].round = MaxRounds
    /\ Len(requests[1]) = MaxRounds
    /\ Last(Msgs(1)).role = "tool"
    /\ Last(events[1]).event = "done"

\* C6: argument text that does not parse never aborts the turn: the call is
\* answered by a tool-result message carrying an error payload and the turn
\* goes on (the claim as the specification states it).
C6_MalformedArgsNonFatal ==
    \A t \in Turns : Started(t) =>
        /\ ~(turn[t].pc = "raised" /\ turn[t].exc = "json")
        /\ \A k \in 1..Len(Msgs(t)) :
              (Msgs(t)[k].role = "tool" /\ ~JsonParses(CallOf(Msgs(t), k).arguments)) =>
                 Msgs(t)[k].content[2] = "error"

\* after the assistant message of a round with calls, the calls are answered
\* one by one in list order, none skipped
RoundShape(t) ==
    LET msgs == Msgs(t)
        a    == LastAssistant(msgs)
    IN  /\ turn[t].pc \in {"tool_start", "tool_call", "tool_record"} =>
              /\ a > 0 /\ msgs[a].tool_calls = turn[t].tool_calls_list
              /\ Len(msgs) - a = turn[t].i - 1
        /\ turn[t].pc = "round_done" =>
              /\ a > 0 /\ msgs[a].tool_calls = turn[t].tool_calls_list
              /\ Len(msgs) - a = Len(turn[t].tool_calls_list)
        \* the loop is left only by a round without calls or by the limit
        /\ turn[t].pc \in {"finish", "done"} =>
              \/ turn[t].round = MaxRounds
              \/ a > 0 /\ msgs[a].tool_calls = <<>> /\ a = Len(msgs)

\* C7: dispatching an unregistered name never raises out of call_tool; the
\* tool-result message appended for the call carries the error payload, and
\* the turn goes on (next call, next round) as after any other call.
C7_UnknownToolNonFatal ==
    \A t \in Turns : Started(t) =>
        /\ turn[t].exc # "call_tool"
        /\ RoundShape(t)
        /\ \A k \in 1..Len(Msgs(t)) :
              (Msgs(t)[k].role = "tool" /\ CallOf(Msgs(t), k).name \notin Registered) =>
                 /\ Msgs(t)[k].content =
                        JsonDumps(<<"error", "unknown tool", CallOf(Msgs(t), k).name>>)
                 /\ Msgs(t)[k].tool_call_id = CallOf(Msgs(t), k).id

C7_Witness ==
    /\ turn[1].pc = "stream"
    /\ Len(requests[1]) >= 2
    /\ Last(Msgs(1)).role = "tool"
    /\ Last(Msgs(1)).content = JsonDumps(<<"error", "unknown tool", "no_such_tool">>)

\* C8: a registered handler that raises (a failure in its body, argument
\* names it does not accept, arguments that are no mapping) never raises out
\* of call_tool; the tool-result message carries the error message, and the
\* loop goes on with the remaining calls and rounds.
C8_HandlerFailureNonFatal ==
    \A t \in Turns : Started(t) =>
        /\ turn[t].exc # "call_tool"
        /\ RoundShape(t)
        /\ \A k \in 1..Len(Msgs(t)) :
              (Msgs(t)[k].role = "tool" /\ CallOf(Msgs(t), k).name \in Registered) =>
                 LET c    == CallOf(Msgs(t), k)
                     args == JsonLoads(c.arguments)
                 IN  /\ args.kind # "dict" =>
                           Msgs(t)[k].content = JsonDumps(<<"error", "TypeError: not a mapping">>)
                     /\ (args.kind = "dict" /\ args.keys # Accepted(c.name)) =>
                           Msgs(t)[k].content = JsonDumps(<<"error", "TypeError: arguments">>)
                     /\ (args.kind = "dict" /\ args.keys = Accepted(c.name)) =>
                           Msgs(t)[k].content \in {JsonDumps(<<"ok", c.name>>),
                                                   JsonDumps(<<"error", "db error">>)}

C8_Witness ==
    /\ turn[1].pc = "stream"
    /\ Len(requests[1]) >= 2
    /\ \E k \in 1..Len(Msgs(1)) :
          /\ Msgs(1)[k].content = JsonDumps(<<"error", "db error">>)
          /\ k < Len(Msgs(1))
          /\ Msgs(1)[k + 1].role = "tool"

\* C9: once a model request failed the turn has surfaced exactly one error
\* event, as its last event, and has returned; the failed request was the
\* only one of its round, the transcript is the one that request was given,
\* and nothing happens in the turn afterwards.
C9_State ==
    \A t \in Turns : CountEvents(t, "error") > 0 =>
        /\ turn[t].pc = "returned"
        /\ CountEvents(t, "error") = 1
        /\ Last(events[t]).event = "error"
        /\ Len(requests[t]) = turn[t].round + 1
        /\ Msgs(t) = Last(requests[t]).messages
        /\ Last(Msgs(t)).role # "assistant"

C9_Step ==
    \A t \in Turns : turn[t].pc = "returned" =>
        /\ turn'[t] = turn[t]
        /\ events'[t] = events[t]
        /\ requests'[t] = requests[t]
        /\ objs' = objs

C9_RequestFailureHalts == []C9_State /\ [][C9_Step]_vars

C9_Witness ==
    /\ turn[1].pc = "returned"
    /\ turn[1].round >= 1
    /\ Last(events[1]).event = "error"

\* C10: an exception raised while the stream is consumed surfaces an error
\* event to the caller, halts the loop and commits no assistant message for
\* the round (the claim as the specification states it).
C10_StreamFailureSurfaced ==
    \A t \in Turns : turn[t].exc = "stream" =>
        /\ events[t] # <<>>
        /\ Last(events[t]).event = "error"
        /\ Ended(t)
        /\ Msgs(t) = Last(requests[t]).messages

-----------------------------------------------------------------------------
(* The accumulation of one streamed response, for every stream of at most   *)
(* MaxChunks chunks over the chunks below.  The specification starts where  *)
(* the first request of a turn has returned its stream.                     *)

AccIndexes == {0, 1, 3}
AccParts == {[id |-> "a",  name |-> "f",  arguments |-> <<>>],
             [id |-> "b",  name |-> None, arguments |-> <<>>],
             [id |-> None, name |-> "g",  arguments |-> <<"{">>],
             [id |-> None, name |-> None, arguments |-> <<"z">>],
             [id |-> None, name |-> None, arguments |-> <<"}">>]}
AccFragments == {Frag(k, p.id, p.name, p.arguments) : k \in AccIndexes, p \in AccParts}

AccChunks ==
    {TextChunk("t"), TextChunk("u"), ReasoningChunk("r"), KeepAlive}
    \cup {ToolChunk(<<f>>) : f \in AccFragments}
    \cup {[has_delta |-> TRUE, reasoning_content |-> <<>>, content |-> <<"t">>,
           tool_calls |-> <<Frag(1, "b", "g", <<"{">>), Frag(0, "a", "f", <<"{">>)>>],
          ToolChunk(<<Frag(0, None, None, <<"z">>), Frag(1, None, None, <<"}">>)>>),
          ToolChunk(<<Frag(3, None, None, <<"{">>), Frag(3, None, None, <<"}">>)>>),
          ToolChunk(<<Frag(3, "a", "f", <<"{", "z">>), Frag(1, "b", "g", <<>>),
                      Frag(3, None, None, <<"}">>)>>)}

InitAcc ==
    /\ sessions = ("s1" :> 1)
    /\ objs = <<[NewSession EXCEPT !.msgs = Append(@, UserMsg(1, <<"hi">>))]>>
    /\ turn = [t \in Turns |->
                 IF t = 1 THEN [IdleTurn EXCEPT !.pc = "stream", !.session = 1,
                                                !.sid = "s1"]
                 ELSE IdleTurn]
    /\ events = [t \in Turns |-> <<>>]
    /\ stream = [t \in Turns |-> <<>>]
    /\ requests = [t \in Turns |->
                     IF t = 1 THEN <<BuildLlmKwargs(objs[1])>> ELSE <<>>]
    /\ API_KEY = TRUE
    /\ arrived = [t \in Turns |-> <<>>]
    /\ env = [t \in Turns |-> [varied |-> 0, free |-> t = 1]]
    /\ dispatched = [t \in Turns |-> <<>>]
    /\ reply = NoReply
    /\ NonChatInit

\* the provider delivers one more chunk
AccChunk(t) ==
    /\ Len(arrived[t]) < MaxChunks
    /\ \E c \in AccChunks : ConsumeChunk(t, c, <<>>)

NextAcc == \E t \in {1} : AccChunk(t) \/ StreamEnd(t) \/ Commit(t)

SpecAcc == InitAcc /\ [][NextAcc]_vars

(* What a stream delivered, told from the chunks that arrived *)

\* the tool-call fragments in arrival order
RECURSIVE ArrivedFrags(_)
ArrivedFrags(cs) ==
    IF cs = <<>> THEN <<>>
    ELSE (IF Head(cs).has_delta THEN Head(cs).tool_calls ELSE <<>>) \o ArrivedFrags(Tail(cs))

\* the answer text: the text pieces in arrival order
RECURSIVE ArrivedText(_)
ArrivedText(cs) ==
    IF cs = <<>> THEN <<>>
    ELSE (IF Head(cs).has_delta THEN Head(cs).content ELSE <<>>) \o ArrivedText(Tail(cs))

\* the argument pieces of index k in arrival order
RECURSIVE ArrivedArgs(_, _)
ArrivedArgs(fs, k) ==
    IF fs = <<>> THEN <<>>
    ELSE (IF Head(fs).index = k THEN Head(fs).arguments ELSE <<>>) \o ArrivedArgs(Tail(fs), k)

ArrivedIndexes(fs) == {fs[j].index : j \in 1..Len(fs)}
ArrivedIds(fs, k) == {fs[j].id : j \in {x \in 1..Len(fs) : fs[x].index = k}} \ {None}
ArrivedNames(fs, k) == {fs[j].name : j \in {x \in 1..Len(fs) : fs[x].index = k}} \ {None}

\* the position of index k among the indexes that arrived, in ascending order
Rank(K, k) == Cardinality({j \in K : j <= k})

\* the round's accumulation is over and its assistant message appended
Finalized(t) == turn[t].pc \in {"tool_start", "finish"}

\* the stream is a chunking of one logical response: every index carries at
\* most one identifier and at most one name, however often they are repeated
IsChunking(fs) ==
    \A k \in ArrivedIndexes(fs) :
        Cardinality(ArrivedIds(fs, k)) <= 1 /\ Cardinality(ArrivedNames(fs, k)) <= 1

TheOne(S) == IF S = {} THEN None ELSE CHOOSE x \in S : TRUE

\* that logical response as one chunk: the whole text and one complete
\* fragment per call
RECURSIVE WholeFrags(_, _)
WholeFrags(fs, K) ==
    IF K = {} THEN <<>>
    ELSE LET k == Min(K)
         IN  <<Frag(k, TheOne(ArrivedIds(fs, k)), TheOne(ArrivedNames(fs, k)),
                    ArrivedArgs(fs, k))>> \o WholeFrags(fs, K \ {k})

OneChunk(cs) ==
    [has_delta |-> TRUE, reasoning_content |-> <<>>, content |-> ArrivedText(cs),
     tool_calls |-> WholeFrags(ArrivedFrags(cs), ArrivedIndexes(ArrivedFrags(cs)))]

\* C3: a response fed chunk by chunk finalizes to the same answer text and
\* the same call list (identifiers, names, argument texts, order) as the same
\* response fed as one chunk.
C3_ChunkingIndependent ==
    \A t \in Turns :
        (Finalized(t) /\ IsChunking(ArrivedFrags(arrived[t]))) =>
            LET one == ApplyChunk(EmptyAcc, OneChunk(arrived[t]))
            IN  /\ turn[t].acc.full_content = one.full_content
                /\ turn[t].tool_calls_list = ToolCallsList(one.tool_calls_dict)
                /\ Last(Msgs(t)).content = one.full_content
                /\ Last(Msgs(t)).tool_calls = ToolCallsList(one.tool_calls_dict)

C3_Witness ==
    LET fs == ArrivedFrags(arrived[1])
    IN  /\ Finalized(1)
        /\ IsChunking(fs)
        /\ Len(arrived[1]) = 3
        /\ Len(turn[1].acc.full_content) = 2
        /\ \E k \in ArrivedIndexes(fs) :
              /\ Cardinality({j \in 1..Len(fs) : fs[j].index = k /\ fs[j].arguments # <<>>}) >= 2
              /\ ArrivedIds(fs, k) # {}

\* C4: the finalized call list holds one call per index that arrived, in
\* ascending index order, whatever the arrival order.
C4_AscendingIndexOrder ==
    \A t \in Turns : Finalized(t) =>
        LET fs   == ArrivedFrags(arrived[t])
            K    == ArrivedIndexes(fs)
            list == turn[t].tool_calls_list
        IN  /\ Len(list) = Cardinality(K)
            /\ DOMAIN turn[t].acc.tool_calls_dict = K
            /\ Last(Msgs(t)).tool_calls = list
            /\ \A k \in K :
                  /\ list[Rank(K, k)].arguments = ArrivedArgs(fs, k)
                  /\ list[Rank(K, k)].id = turn[t].acc.tool_calls_dict[k].id
                  /\ list[Rank(K, k)].name = turn[t].acc.tool_calls_dict[k].name

\* index 1 arrives first, then index 3, then index 0
C4_Witness ==
    LET fs == ArrivedFrags(arrived[1])
    IN  /\ Finalized(1)
        /\ Len(fs) >= 3
        /\ fs[1].index = 1 /\ fs[2].index = 3 /\ fs[3].index = 0
        /\ Len(turn[1].tool_calls_list) = 3
        /\ turn[1].tool_calls_list[1].arguments # turn[1].tool_calls_list[2].arguments
        /\ turn[1].tool_calls_list[2].arguments # turn[1].tool_calls_list[3].arguments

\* C5: at every point of the stream and in the finalized list, the argument
\* text of an index is the concatenation, in arrival order, of the argument
\* fragments received for that index.
C5_ArgumentsConcatenated ==
    \A t \in Turns : turn[t].pc \in {"stream", "commit", "tool_start", "finish"} =>
        LET fs == ArrivedFrags(arrived[t])
            K  == ArrivedIndexes(fs)
        IN  /\ \A k \in K : /\ k \in DOMAIN turn[t].acc.tool_calls_dict
                            /\ turn[t].acc.tool_calls_dict[k].arguments = ArrivedArgs(fs, k)
            /\ Finalized(t) =>
                  \A k \in K : Last(Msgs(t)).tool_calls[Rank(K, k)].arguments = ArrivedArgs(fs, k)

\* two fragments of index 0 with a fragment of index 1 between them
C5_Witness ==
    LET fs == ArrivedFrags(arrived[1])
    IN  /\ Finalized(1)
        /\ Len(fs) >= 3
        /\ fs[1].index = 0 /\ fs[1].arguments = <<"{">>
        /\ fs[2].index = 1 /\ fs[2].arguments = <<"z">>
        /\ fs[3].index = 0 /\ fs[3].arguments = <<"}">>
        /\ turn[1].tool_calls_list[1].arguments = <<"{", "}">>

-----------------------------------------------------------------------------
(* Two chat requests served by two threads (app.run(threaded=True)).  Each  *)
(* action is one step of one thread; the steps of the two interleave.  The  *)
(* model answers a round with the standard text, or, in at most MaxVaried   *)
(* rounds of a turn, with one call of a registered tool.                    *)

ConcIds == <<"x", "y">>
ConcTool(t) == <<ToolChunk(<<Frag(0, ConcIds[t], "water_zone", GoodArgs)>>)>>

ConcCreateText(t) == CreateOk(t, StdText, FALSE)

ConcCreateTool(t) ==
    /\ env[t].varied > 0
    /\ CreateOk(t, ConcTool(t), TRUE)

NextConc ==
    \E t \in Turns :
        \/ \E sid \in Sids : Chat(t, sid, <<"hi">>)
        \/ CreateFails(t)
        \/ ConcCreateText(t)
        \/ ConcCreateTool(t)
        \/ StreamNext(t)
        \/ StreamRaises(t)
        \/ StreamEnd(t)
        \/ Commit(t)
        \/ ToolStart(t)
        \/ ToolCall(t, "ok")
        \/ ToolRecord(t)
        \/ RoundDone(t)
        \/ Finish(t)

SpecConc == Init /\ [][NextConc]_vars

\* C2: in every transcript the messages appended by one turn form one
\* contiguous block (the claim as the specification states it).
C2_TurnsContiguous ==
    \A o \in 1..Len(objs) :
        \A i, j, k \in 1..Len(objs[o].msgs) :
            (i < j /\ j < k /\ objs[o].msgs[i].by = objs[o].msgs[k].by) =>
                objs[o].msgs[j].by = objs[o].msgs[i].by

-----------------------------------------------------------------------------
(* The event sequence of one turn *)

\* the position of the last round_done before position p (0: none), and of
\* the first one after it (one past the end: none)
PrevRoundDone(t, p) ==
    Max({0} \cup {q \in 1..(p - 1) : events[t][q].event = "round_done"})
NextRoundDone(t, p) ==
    Min({Len(events[t]) + 1}
        \cup {q \in (p + 1)..Len(events[t]) : events[t][q].event = "round_done"})

\* the events of the round in progress: those after the last round_done
CurrentRound(t) ==
    SubSeq(events[t], PrevRoundDone(t, Len(events[t]) + 1) + 1, Len(events[t]))

IsToolEvent(e) == e.event \in {"tool_start", "tool_done"}
ToolEvents(evs) == SelectSeq(evs, IsToolEvent)

\* the data of the events of one kind, concatenated in order
RECURSIVE ConcatData(_, _)
ConcatData(evs, kind) ==
    IF evs = <<>> THEN <<>>
    ELSE (IF Head(evs).event = kind THEN Head(evs).data ELSE <<>>)
         \o ConcatData(Tail(evs), kind)

IsPrefix(s, r) == Len(s) <= Len(r) /\ SubSeq(r, 1, Len(s)) = s

\* C11: a turn whose generator has ended has delivered a terminal signal:
\* the last event the caller received is done or error, also when an
\* argument text was malformed or the stream raised mid-way (the claim as
\* the specification states it).
C11_TerminalSignal ==
    \A t \in Turns : Ended(t) =>
        /\ events[t] # <<>>
        /\ Last(events[t]).event \in {"done", "error"}

\* C12 as the specification states it, at the turns whose generator ran to
\* its end: the done event is emitted exactly once and is the last event.
C12_DoneExactlyOnce ==
    \A t \in Turns : turn[t].pc \in {"done", "returned"} =>
        /\ CountEvents(t, "done") = 1
        /\ Last(events[t]).event = "done"

\* C12 (amended): the done event is emitted at most once in a turn and no
\* event follows it; it is emitted exactly once by every turn that leaves
\* the round loop (a round without calls, or the round limit) and not at all
\* by a turn that ends on a failed model request or on an exception.
C12_DoneAtMostOnceAndLast ==
    \A t \in Turns :
        /\ CountEvents(t, "done") <= 1
        /\ CountEvents(t, "done") = 1 => Last(events[t]).event = "done"
        /\ turn[t].pc = "done" <=> CountEvents(t, "done") = 1
        /\ turn[t].pc \in {"returned", "raised"} => CountEvents(t, "done") = 0
        /\ turn[t].pc = "returned" => Last(events[t]).event = "error"

C12_Witness ==
    \E t \in Turns :
        /\ turn[t].pc = "done"
        /\ CountEvents(t, "tool_done") >= 1
        /\ CountEvents(t, "done") = 1
        /\ Last(events[t]).event = "done"

\* the tool events a round in progress has emitted, by the position of the
\* turn in its list of calls
ToolEventsDue(t) ==
    CASE turn[t].pc = "tool_start"  -> 2 * (turn[t].i - 1)
      [] turn[t].pc = "tool_call"   -> 2 * turn[t].i - 1
      [] turn[t].pc = "tool_record" -> 2 * turn[t].i
      [] turn[t].pc = "round_done"  -> 2 * Len(turn[t].tool_calls_list)

\* C13: over the whole turn the tool events alternate tool_start, tool_done,
\* each tool_done being that of the call just started, so at most one call
\* is in progress; in a round the k-th pair is that of the k-th call of the
\* finalized list.
C13_ToolEventsAlternate ==
    \A t \in Turns :
        /\ LET te == ToolEvents(events[t])
           IN  \A k \in 1..Len(te) :
                  IF k % 2 = 1 THEN te[k].event = "tool_start"
                  ELSE /\ te[k].event = "tool_done"
                       /\ te[k].data[1] = te[k - 1].data[1]
                       /\ te[k].data[2] = te[k - 1].data[2]
        /\ turn[t].pc \in {"tool_start", "tool_call", "tool_record", "round_done"} =>
              LET ce == ToolEvents(CurrentRound(t))
              IN  /\ Len(ce) = ToolEventsDue(t)
                  /\ \A k \in 1..Len(ce) :
                        /\ ce[k].data[1] = turn[t].tool_calls_list[(k + 1) \div 2].id
                        /\ ce[k].data[2] = turn[t].tool_calls_list[(k + 1) \div 2].name

C13_Witness ==
    \E t \in Turns :
        /\ turn[t].pc = "round_done"
        /\ Len(turn[t].tool_calls_list) = 2
        /\ Len(ToolEvents(CurrentRound(t))) = 4

\* a round has reached its end when the turn stands between two rounds or
\* behind the loop
RoundsEnded(t) ==
    IF turn[t].pc \in {"idle", "rejected", "create", "finish", "done"}
    THEN Len(requests[t]) ELSE Len(requests[t]) - 1

C14_State ==
    \A t \in Turns :
        /\ CountEvents(t, "round_done") = RoundsEnded(t)
        /\ (turn[t].pc \in {"create", "finish"} /\ Len(requests[t]) > 0) =>
              Last(events[t]).event = "round_done"
        /\ turn[t].pc = "done" =>
              events[t][Len(events[t]) - 1].event = "round_done"
        \* no tool event of a round is left open at its round_done
        /\ \A p \in 1..Len(events[t]) :
              events[t][p].event = "round_done" =>
                 Len(ToolEvents(SubSeq(events[t], 1, p))) % 2 = 0

C14_Step ==
    \A t \in Turns : IsPrefix(events[t], events'[t])

\* C14: round_done is emitted exactly once per round that reaches its end:
\* it is the last event when a round has ended, every event of the round
\* (its tool_start and tool_done among them) stands before it, and every
\* later event is appended behind it.
C14_RoundDoneOncePerRound == []C14_State /\ [][C14_Step]_vars

C14_Witness ==
    \E t \in Turns :
        /\ turn[t].pc = "done"
        /\ Len(requests[t]) = 2
        /\ CountEvents(t, "round_done") = 2
        /\ CountEvents(t, "tool_done") = 2

\* C15: in a round every text_delta stands before the text_done and every
\* reasoning_delta before the reasoning_done, a round has at most one of
\* each, and the content of a text_done (reasoning_done) is the in-order
\* concatenation of the round's text_delta (reasoning_delta) contents.
C15_DoneIsConcatenationOfDeltas ==
    \A t \in Turns : \A p \in 1..Len(events[t]) :
        \A kind \in {<<"text_delta", "text_done">>,
                     <<"reasoning_delta", "reasoning_done">>} :
            events[t][p].event = kind[2] =>
                LET q == PrevRoundDone(t, p)
                    r == NextRoundDone(t, p)
                IN  /\ events[t][p].data =
                          ConcatData(SubSeq(events[t], q + 1, p - 1), kind[1])
                    /\ \A x \in (p + 1)..(r - 1) : events[t][x].event # kind[1]
                    /\ \A x \in (q + 1)..(r - 1) :
                          events[t][x].event = kind[2] => x = p

C15_Witness ==
    \E t \in Turns : \E p \in 1..Len(events[t]) :
        /\ events[t][p].event = "text_done"
        /\ events[t][p].data = <<"t", "u">>
        /\ CountEvents(t, "text_delta") = 2
        /\ CountEvents(t, "reasoning_done") = 1

-----------------------------------------------------------------------------
(* The transcript of one turn *)

\* the messages a turn appends behind its user message: for every round
\* with calls one assistant message followed by one tool-result message per
\* call, in list order, and at the end one assistant message without calls
RECURSIVE ToolRoundsThenAnswer(_)
ToolRoundsThenAnswer(ms) ==
    /\ ms # <<>>
    /\ Head(ms).role = "assistant"
    /\ LET n == Len(Head(ms).tool_calls)
       IN  IF n = 0 THEN Len(ms) = 1
           ELSE /\ Len(ms) > n
                /\ \A j \in 1..n :
                      /\ ms[1 + j].role = "tool"
                      /\ ms[1 + j].tool_call_id = Head(ms).tool_calls[j].id
                /\ ToolRoundsThenAnswer(SubSeq(ms, n + 2, Len(ms)))

ToolRounds(msgs) ==
    Cardinality({k \in 1..Len(msgs) :
                    msgs[k].role = "assistant" /\ msgs[k].tool_calls # <<>>})

\* the turn has ended on a round in which the model requested no tool
AnsweredWithText(t) ==
    /\ turn[t].pc = "done"
    /\ Last(Msgs(t)).role = "assistant"
    /\ Last(Msgs(t)).tool_calls = <<>>

\* C19: a turn whose first k rounds request tools and whose round k+1 does
\* not has issued exactly k+1 model requests (k < 10) and has appended
\* exactly: the user message, per tool round one assistant message and one
\* tool-result message per call, and one final assistant message holding
\* the text of round k+1.
C19_TurnTranscript ==
    \A t \in Turns : AnsweredWithText(t) =>
        LET msgs == Msgs(t)
            k    == ToolRounds(msgs)
            p    == PrevRoundDone(t, Len(events[t]) - 1)
        IN  /\ k < MaxRounds
            /\ Len(requests[t]) = k + 1
            /\ msgs[1].role = "system"
            /\ msgs[2].role = "user" /\ msgs[2].by = t
            /\ ToolRoundsThenAnswer(SubSeq(msgs, 3, Len(msgs)))
            /\ Last(msgs).content =
                  ConcatData(SubSeq(events[t], p + 1, Len(events[t])), "text_delta")
            /\ Last(requests[t]).messages = SubSeq(msgs, 1, Len(msgs) - 1)

\* one water_zone call, then the answer: two rounds, five messages
C19_Witness ==
    \E t \in Turns :
        /\ AnsweredWithText(t)
        /\ Len(requests[t]) = 2
        /\ Len(Msgs(t)) = 5
        /\ Msgs(t)[3].tool_calls # <<>>
        /\ Msgs(t)[3].tool_calls[1].name = "water_zone"
        /\ Msgs(t)[4].role = "tool"
        /\ Msgs(t)[5].content = <<"t">>

\* the position in the transcript of the assistant message of round r of
\* the turn (rounds count from 0)
AssistantOfRound(t, r) ==
    LET S == {k \in 1..Len(Msgs(t)) : Msgs(t)[k].role = "assistant"}
    IN  CHOOSE k \in S : Cardinality({j \in S : j < k}) = r

DispatchesOfRound(t, r) ==
    SelectSeq(dispatched[t], LAMBDA d : d.round = r)

\* the round whose calls are being handled
HandlingCalls(t) == turn[t].pc \in {"tool_start", "tool_call", "tool_record"}

\* C20: in a round with calls the assistant message stands in the transcript
\* before the first call is dispatched; the calls of the finalized list are
\* dispatched in list order, and the tool-result message of a call is
\* appended before the next call is dispatched; once the round is over every
\* call of the list has been dispatched exactly once (the claim as the
\* specification states it).
C20_DispatchOrder ==
    \A t \in Turns : Started(t) =>
        LET S == {k \in 1..Len(Msgs(t)) : Msgs(t)[k].role = "assistant"}
        IN  \A r \in 0..(Cardinality(S) - 1) :
               LET a  == AssistantOfRound(t, r)
                   ds == DispatchesOfRound(t, r)
                   n  == Len(Msgs(t)[a].tool_calls)
               IN  /\ \A j \in 1..Len(ds) :
                         /\ ds[j].i = j
                         /\ j <= n
                         /\ ds[j].name = Msgs(t)[a].tool_calls[j].name
                         \* the assistant message and the results of the
                         \* calls before it were in the transcript
                         /\ ds[j].msgs = a + j - 1
                         /\ \A x \in 1..(j - 1) : Msgs(t)[a + x].role = "tool"
                   /\ ~(HandlingCalls(t) /\ r = turn[t].round) => Len(ds) = n

-----------------------------------------------------------------------------
(* Two chat requests served by two threads, on two distinct sessions of the *)
(* callers' choice.                                                         *)

SidsTwo == {"s1", "s2"}

\* a chat request on a session no other request is made on
ChatOnOwnSession(t) ==
    \E sid \in SidsTwo :
        /\ \A u \in Turns \ {t} : turn[u].sid # sid
        /\ Chat(t, sid, <<"hi">>)

NextTwo ==
    \E t \in Turns :
        \/ ChatOnOwnSession(t)
        \/ CreateFails(t)
        \/ ConcCreateText(t)
        \/ ConcCreateTool(t)
        \/ StreamNext(t)
        \/ StreamRaises(t)
        \/ StreamEnd(t)
        \/ Commit(t)
        \/ ToolStart(t)
        \/ ToolCall(t, "ok")
        \/ ToolRecord(t)
        \/ RoundDone(t)
        \/ Finish(t)

SpecTwo == Init /\ [][NextTwo]_vars

\* the turns that were started on session sid
TurnsOn(sid) == {t \in Turns : Started(t) /\ turn[t].sid = sid}

\* C16: under every interleaving, the transcript of a session holds, behind
\* the system message, only messages appended by turns on that session, and
\* its tool-name map only identifiers recorded by turns on that session; two
\* session identifiers never share a session object.
C16_SessionsIsolated ==
    /\ \A a, b \in DOMAIN sessions : a # b => sessions[a] # sessions[b]
    /\ \A sid \in DOMAIN sessions :
          LET session == objs[sessions[sid]]
          IN  /\ \A k \in 1..Len(session.msgs) :
                    session.msgs[k].by # 0 => session.msgs[k].by \in TurnsOn(sid)
              /\ \A id \in DOMAIN session.tool_names :
                    \E t \in TurnsOn(sid) : ConcIds[t] = id

\* both turns have run to their end, with a tool call each, on two sessions
C16_Witness ==
    /\ turn[1].pc = "done" /\ turn[2].pc = "done"
    /\ turn[1].sid # turn[2].sid
    /\ DOMAIN objs[turn[1].session].tool_names = {ConcIds[1]}
    /\ DOMAIN objs[turn[2].session].tool_names = {ConcIds[2]}
    /\ Len(objs[turn[1].session].msgs) = 5
    /\ Len(objs[turn[2].session].msgs) = 5

-----------------------------------------------------------------------------
(* The session-store handlers of app.py.  Each handler runs in one step:    *)
(* it takes sessions_lock for its lookup and holds no other suspension.     *)

TurnVars == <<turn, events, stream, requests, API_KEY, arrived, env, dispatched>>

\* create_session(): the identifier is a fresh uuid
CreateSession(sid) ==
    /\ sid \notin DOMAIN sessions
    /\ sessions' = GetSessionStore(sid)
    /\ objs' = GetSessionObjs(sid)
    /\ reply' = [NoReply EXCEPT !.handler = "create_session", !.status = 200,
                                !.session_id = sid]
    /\ UNCHANGED <<TurnVars, NonChatVars>>

\* delete_session(sid): sessions.pop(sid, None)
DeleteSession(sid) ==
    /\ sessions' = [x \in (DOMAIN sessions) \ {sid} |-> sessions[x]]
    /\ reply' = [NoReply EXCEPT !.handler = "delete_session", !.status = 200,
                                !.ok = TRUE]
    /\ UNCHANGED <<objs, TurnVars, NonChatVars>>

\* TOOL_DISPLAY_NAMES.get(raw_name, raw_name or <the default label>)
DisplayNameOrDefault(raw_name) ==
    IF raw_name \in Registered THEN TOOL_DISPLAY_NAMES(raw_name)
    ELSE IF raw_name \in {"", None} THEN "tool" ELSE raw_name

\* the copy of a message get_messages returns
Enriched(session, m) ==
    [role |-> m.role, content |-> m.content, tool_calls |-> m.tool_calls,
     tool_call_id |-> m.tool_call_id, reasoning_content |-> m.reasoning_content,
     display_name |-> IF m.role = "tool"
                      THEN DisplayNameOrDefault(
                               IF m.tool_call_id \in DOMAIN session.tool_names
                               THEN session.tool_names[m.tool_call_id] ELSE "")
                      ELSE None]

NotSystem(m) == m.role # "system"

\* get_messages(sid)
GetMessages(sid) ==
    LET session == GetSessionObjs(sid)[GetSessionRef(sid)]
        msgs    == SelectSeq(session.msgs, NotSystem)
    IN  /\ sessions' = GetSessionStore(sid)
        /\ objs' = GetSessionObjs(sid)
        /\ reply' = [NoReply EXCEPT
                        !.handler = "get_messages", !.status = 200,
                        !.messages = [k \in 1..Len(msgs) |-> Enriched(session, msgs[k])],
                        !.reasoning = session.reasoning,
                        !.reasoning_effort = session.reasoning_effort]
        /\ UNCHANGED <<TurnVars, NonChatVars>>

\* get_reasoning(sid)
GetReasoning(sid) ==
    LET session == GetSessionObjs(sid)[GetSessionRef(sid)]
    IN  /\ sessions' = GetSessionStore(sid)
        /\ objs' = GetSessionObjs(sid)
        /\ reply' = [NoReply EXCEPT
                        !.handler = "get_reasoning", !.status = 200,
                        !.reasoning = session.reasoning,
                        !.reasoning_effort = session.reasoning_effort]
        /\ UNCHANGED <<TurnVars, NonChatVars>>

\* bool(v) of a JSON value, the value written as its JSON text
Bool(v) == v \notin {"false", "null", "0", "\"\""}

Absent == "absent"

\* set_reasoning(sid) with the JSON object body {reasoning, reasoning_effort}
\* (a key that is missing holds Absent): reasoning is stored before
\* reasoning_effort is validated
SetReasoning(sid, body) ==
    LET ref     == GetSessionRef(sid)
        session == GetSessionObjs(sid)[ref]
        s1      == IF body.reasoning # Absent
                   THEN [session EXCEPT !.reasoning = Bool(body.reasoning)]
                   ELSE session
        valid   == body.reasoning_effort \in {"low", "medium", "high"}
        s2      == IF body.reasoning_effort # Absent /\ valid
                   THEN [s1 EXCEPT !.reasoning_effort = body.reasoning_effort]
                   ELSE s1
    IN  /\ sessions' = GetSessionStore(sid)
        /\ objs' = [GetSessionObjs(sid) EXCEPT ![ref] = s2]
        /\ reply' = IF body.reasoning_effort # Absent /\ ~valid
                    THEN [NoReply EXCEPT !.handler = "set_reasoning", !.status = 400,
                                         !.error = TRUE]
                    ELSE [NoReply EXCEPT !.handler = "set_reasoning", !.status = 200,
                                         !.reasoning = s2.reasoning,
                                         !.reasoning_effort = s2.reasoning_effort]
        /\ UNCHANGED <<TurnVars, NonChatVars>>

-----------------------------------------------------------------------------
(* One chat request together with the session-store requests of other       *)
(* clients on the same session identifier, served by other threads.         *)

\* the bodies posted to set_reasoning
Bodies ==
    {[reasoning |-> "true", reasoning_effort |-> Absent],
     [reasoning |-> "false", reasoning_effort |-> "high"],
     [reasoning |-> "true", reasoning_effort |-> "extreme"]}

\* a request that creates the session it names is made only while the heap
\* has room
MayAllocate(sid) == sid \in DOMAIN sessions \/ Len(objs) < MaxObjs

StoreChat(t) ==
    \E sid \in Sids : MayAllocate(sid) /\ Chat(t, sid, <<"hi">>)

StoreRequest ==
    \E sid \in Sids :
        \/ MayAllocate(sid) /\ CreateSession(sid)
        \/ DeleteSession(sid)
        \/ MayAllocate(sid) /\ GetMessages(sid)
        \/ MayAllocate(sid) /\ GetReasoning(sid)
        \/ \E body \in Bodies : MayAllocate(sid) /\ SetReasoning(sid, body)

NextStore ==
    \/ StoreRequest
    \/ \E t \in {1} :
          \/ StoreChat(t)
          \/ CreateFails(t)
          \/ ConcCreateText(t)
          \/ ConcCreateTool(t)
          \/ StreamNext(t)
          \/ StreamRaises(t)
          \/ StreamEnd(t)
          \/ Commit(t)
          \/ ToolStart(t)
          \/ ToolCall(t, "ok")
          \/ ToolRecord(t)
          \/ RoundDone(t)
          \/ Finish(t)

SpecStore == Init /\ [][NextStore]_vars

\* C17: every session, in the store or dropped from it while a turn still
\* holds it, has a transcript with exactly one system message, the first
\* one, holding the system prompt.
C17_OneSystemMessageFirst ==
    /\ \A sid \in DOMAIN sessions : sessions[sid] \in 1..Len(objs)
    /\ \A o \in 1..Len(objs) :
          /\ objs[o].msgs # <<>>
          /\ objs[o].msgs[1].role = "system"
          /\ objs[o].msgs[1].content = SYSTEM
          /\ \A k \in 2..Len(objs[o].msgs) : objs[o].msgs[k].role # "system"

\* a session created again by a history read after its deletion, while the
\* turn that began on the deleted one has appended its messages
C17_Witness ==
    /\ Len(objs) = 2
    /\ "s1" \in DOMAIN sessions /\ sessions["s1"] = 2
    /\ turn[1].pc = "done"
    /\ Len(objs[turn[1].session].msgs) = 5
    /\ reply.handler = "set_reasoning"
    /\ objs[2].reasoning

C18_Step ==
    /\ \A o \in 1..Len(objs) :
          /\ o \in 1..Len(objs')
          /\ IsPrefix(objs[o].msgs, objs'[o].msgs)
    /\ \A sid \in (DOMAIN sessions) \cap (DOMAIN sessions') :
          IsPrefix(objs[sessions[sid]].msgs, objs'[sessions'[sid]].msgs)

C18_State ==
    \A t \in Turns : \A j \in 1..Len(requests[t]) :
        /\ IsPrefix(requests[t][j].messages, objs[turn[t].session].msgs)
        /\ j > 1 =>
              /\ IsPrefix(requests[t][j - 1].messages, requests[t][j].messages)
              /\ Len(requests[t][j - 1].messages) < Len(requests[t][j].messages)

\* C18: no step removes, reorders or rewrites a message: the transcript of
\* a session before a step is a prefix of its transcript after the step as
\* long as the session exists, and within a turn the transcript sent with a
\* model request is a proper prefix of the one sent with the next.
C18_TranscriptAppendOnly == []C18_State /\ [][C18_Step]_vars

C18_Witness ==
    \E t \in Turns :
        /\ Len(requests[t]) = 2
        /\ Len(requests[t][1].messages) = 2
        /\ Len(requests[t][2].messages) = 4
        /\ turn[t].pc = "done"
        /\ turn[t].sid \in DOMAIN sessions
        /\ sessions[turn[t].sid] = turn[t].session
        /\ reply.handler = "get_messages"
        /\ Len(reply.messages) = 4

-----------------------------------------------------------------------------
(* Tool-result messages and the calls they answer *)

\* the calls requested by the assistant messages before position k of a
\* transcript, as pairs <<position of the message, position in its list>>
EarlierCalls(msgs, k) ==
    UNION {{<<a, j>> : j \in 1..Len(msgs[a].tool_calls)} :
              a \in {x \in 1..(k - 1) : msgs[x].role = "assistant"}}

\* C21: every tool-result message carries a defined tool_call_id, and that
\* identifier is the identifier of exactly one call requested by an earlier
\* assistant message of the same transcript (the claim as the specification
\* states it).
C21_ToolResultReferencesOneCall ==
    \A o \in 1..Len(objs) : \A k \in 1..Len(objs[o].msgs) :
        LET msgs == objs[o].msgs
        IN  msgs[k].role = "tool" =>
               /\ msgs[k].tool_call_id # None
               /\ Cardinality({c \in EarlierCalls(msgs, k) :
                                  msgs[c[1]].tool_calls[c[2]].id = msgs[k].tool_call_id}) = 1

-----------------------------------------------------------------------------
(* A caller that stops reading the event stream.  The server notices when   *)
(* it fails to write an event yielded after the caller went away (a write   *)
(* to a connection the peer has closed may still succeed), and then closes  *)
(* the generator: GeneratorExit is raised at the yield it is suspended at.  *)

Running(t) ==
    turn[t].pc \in {"create", "stream", "commit", "tool_start", "tool_call",
                    "tool_record", "round_done", "finish"}

\* the generator is suspended at a yield: the code that ran last ended by
\* yielding an event
AtYield(t) ==
    CASE turn[t].pc = "stream" ->
             arrived[t] # <<>> /\ ChunkEvents(Last(arrived[t])) # <<>>
      [] turn[t].pc = "commit" ->
             turn[t].acc.full_content # <<>> \/ turn[t].acc.full_reasoning # <<>>
      [] turn[t].pc \in {"tool_call", "tool_record", "finish"} -> TRUE
      [] turn[t].pc = "create" -> turn[t].round > 0
      [] OTHER -> FALSE

\* the caller goes away
Disconnect(t) ==
    /\ Running(t)
    /\ turn[t].gone = NotGone
    /\ turn' = [turn EXCEPT ![t].gone = [at |-> Len(events[t]), round |-> turn[t].round,
                                         pc |-> turn[t].pc]]
    /\ UNCHANGED <<sessions, objs, events, stream, requests, API_KEY, arrived, env,
                   dispatched, reply, NonChatVars>>

\* a write fails and the response iterator is closed
Close(t) ==
    /\ turn[t].gone # NotGone
    /\ Len(events[t]) > turn[t].gone.at
    /\ AtYield(t)
    /\ turn' = [turn EXCEPT ![t].pc = "closed", ![t].exc = "GeneratorExit"]
    /\ UNCHANGED <<sessions, objs, events, stream, requests, API_KEY, arrived, env,
                   dispatched, reply, NonChatVars>>

\* one call and no text: its fragments yield no event
GoneTool ==
    <<ToolChunk(<<Frag(0, "a", "water_zone", <<"{">>)>>),
      ToolChunk(<<Frag(0, None, None, <<"z", "}">>)>>)>>

GoneCreateTool(t) ==
    /\ env[t].varied > 0
    /\ CreateOk(t, GoneTool, TRUE)

NextGone ==
    \E t \in {1} :
        \/ \E sid \in Sids : Chat(t, sid, <<"hi">>)
        \/ CreateFails(t)
        \/ ConcCreateText(t)
        \/ GoneCreateTool(t)
        \/ StreamNext(t)
        \/ StreamRaises(t)
        \/ StreamEnd(t)
        \/ Commit(t)
        \/ ToolStart(t)
        \/ ToolCall(t, "ok")
        \/ ToolRecord(t)
        \/ RoundDone(t)
        \/ Finish(t)
        \/ Disconnect(t)
        \/ Close(t)

SpecGone == Init /\ [][NextGone]_vars

AssistantMsgsBy(t) ==
    Cardinality({k \in 1..Len(Msgs(t)) :
                    Msgs(t)[k].role = "assistant" /\ Msgs(t)[k].by = t})

\* C22: when the caller goes away while the chunks of a round are being
\* consumed, no assistant message is appended for that round: the transcript
\* holds the assistant messages of the rounds before it and no more (the
\* claim as the specification states it, at the turns in which no event has
\* been yielded, hence no write attempted, since the caller went away).
C22_AbandonedRoundDiscarded ==
    \A t \in Turns :
        (Started(t) /\ turn[t].gone.pc = "stream"
                    /\ Len(events[t]) = turn[t].gone.at) =>
            AssistantMsgsBy(t) <= turn[t].gone.round

-----------------------------------------------------------------------------
(* run.py: the loop of the single-user script, run once per prompt.  The    *)
(* script has no suspension of its own; one action is one stretch between   *)
(* two calls to the provider or to a handler.                               *)

ScriptBy == -1

\* the body of `for chunk in stream`: no reasoning is collected
RunApplyChunk(s, c) ==
    IF ~c.has_delta THEN s
    ELSE [s EXCEPT !.full_content = @ \o c.content,
                   !.tool_calls_dict = ApplyFragments(@, c.tool_calls)]

\* the prompt is appended as entered
RunPrompt(prompt) ==
    /\ st.pc = "idle"
    /\ st' = [st EXCEPT !.msgs = Append(@, UserMsg(ScriptBy, prompt)),
                        !.pc = "create", !.round = 0]
    /\ UNCHANGED <<ChatVars, collector, logs, workers>>

\* client.chat.completions.create: the stream of the round, or st.error and
\* st.stop() when the request fails
RunCreate ==
    /\ st.pc = "create"
    /\ st' = IF st.round < Len(st.plan)
             THEN [st EXCEPT !.pc = "stream", !.stream = st.plan[st.round + 1].resp,
                             !.full_content = <<>>, !.tool_calls_dict = <<>>]
             ELSE [st EXCEPT !.pc = "stopped"]
    /\ UNCHANGED <<ChatVars, collector, logs, workers>>

RunConsume ==
    /\ st.pc = "stream"
    /\ st.stream # <<>>
    /\ st' = [RunApplyChunk(st, Head(st.stream)) EXCEPT !.stream = Tail(st.stream)]
    /\ UNCHANGED <<ChatVars, collector, logs, workers>>

\* the assistant message is built and appended; without calls the loop is left
RunCommit ==
    /\ st.pc = "stream"
    /\ st.stream = <<>>
    /\ LET list == ToolCallsList(st.tool_calls_dict)
           msg  == AssistantMsg(ScriptBy, st.full_content, list, <<>>)
       IN  st' = [st EXCEPT !.msgs = Append(@, msg),
                            !.tool_calls_list = list,
                            !.i = 1,
                            !.pc = IF list = <<>> THEN "rerun" ELSE "tools"]
    /\ UNCHANGED <<ChatVars, collector, logs, workers>>

\* one iteration of `for i, tc in enumerate(tool_calls_list)`: json.loads and
\* fn_args.items() (neither under a try), call_tool, the name recorded and
\* the tool-result message appended
RunTool(outcome) ==
    /\ st.pc = "tools"
    /\ LET tc   == st.tool_calls_list[st.i]
           args == JsonLoads(tc.arguments)
           r    == call_tool(tc.name, args, outcome)
       IN  st' = IF ~JsonParses(tc.arguments)
                 THEN [st EXCEPT !.pc = "raised", !.exc = "json"]
                 ELSE IF args.kind # "dict"
                 THEN [st EXCEPT !.pc = "raised", !.exc = "AttributeError"]
                 ELSE IF r.raised
                 THEN [st EXCEPT !.pc = "raised", !.exc = "call_tool"]
                 ELSE [st EXCEPT
                          !.tool_names = DictSet(@, tc.id, tc.name),
                          !.msgs = Append(@, ToolMsg(ScriptBy, tc.id, r.result)),
                          !.i = IF st.i < Len(st.tool_calls_list) THEN @ + 1 ELSE @,
                          !.round = IF st.i < Len(st.tool_calls_list) THEN @ ELSE @ + 1,
                          !.pc = IF st.i < Len(st.tool_calls_list) THEN "tools"
                                 ELSE IF LoopContinues(st.round) THEN "create"
                                 ELSE "rerun"]
    /\ UNCHANGED <<ChatVars, collector, logs, workers>>

-----------------------------------------------------------------------------
(* The server loop and the script loop given the same prompt, the same      *)
(* streams and the same handler outcomes, round by round.                   *)

PlanRounds ==
    {[resp |-> r, outcome |-> o] :
        r \in Responses \cup {StdText, StdTool(0)}, o \in {"ok", "db error"}}

\* the provider answers MaxPlan requests at most; the next request fails
Plans == UNION {[1..n -> PlanRounds] : n \in 0..MaxPlan}

InitBoth ==
    /\ sessions = <<>>
    /\ objs = <<>>
    /\ turn = [t \in Turns |-> IdleTurn]
    /\ events = [t \in Turns |-> <<>>]
    /\ stream = [t \in Turns |-> <<>>]
    /\ requests = [t \in Turns |-> <<>>]
    /\ API_KEY = TRUE
    /\ arrived = [t \in Turns |-> <<>>]
    /\ env = [t \in Turns |-> [varied |-> MaxPlan, free |-> FALSE]]
    /\ dispatched = [t \in Turns |-> <<>>]
    /\ reply = NoReply
    /\ \E plan \in Plans : st = [IdleScript EXCEPT !.plan = plan]
    /\ collector = NoCollector
    /\ logs = <<>>
    /\ workers = [t \in Turns |-> IdleWorker]

\* the request of a round of the server loop, answered as planned
BothCreate(t) ==
    /\ turn[t].pc = "create"
    /\ IF turn[t].round < Len(st.plan)
       THEN CreateOk(t, st.plan[turn[t].round + 1].resp, TRUE)
       ELSE CreateFails(t)

BothToolCall(t) ==
    /\ turn[t].pc = "tool_call"
    /\ ToolCall(t, st.plan[turn[t].round + 1].outcome)

BothRunTool ==
    /\ st.pc = "tools"
    /\ RunTool(st.plan[st.round + 1].outcome)

NextBoth ==
    \/ RunPrompt(<<"hi">>)
    \/ RunCreate
    \/ RunConsume
    \/ RunCommit
    \/ BothRunTool
    \/ \E t \in {1} :
          \/ \E sid \in Sids : Chat(t, sid, <<"hi">>)
          \/ BothCreate(t)
          \/ StreamNext(t)
          \/ StreamEnd(t)
          \/ Commit(t)
          \/ ToolStart(t)
          \/ BothToolCall(t)
          \/ ToolRecord(t)
          \/ RoundDone(t)
          \/ Finish(t)

SpecBoth == InitBoth /\ [][NextBoth]_vars

\* what the claim compares of a message
Visible(m) ==
    [role |-> m.role, content |-> m.content, tool_calls |-> m.tool_calls,
     tool_call_id |-> m.tool_call_id]

VisibleMsgs(msgs) == [k \in 1..Len(msgs) |-> Visible(msgs[k])]

\* C23: once the server loop and the script loop have both ended their turn
\* on the same prompt, the same streams and the same handler outcomes, their
\* transcripts hold the same messages (roles, contents, tool-call lists,
\* tool_call_ids) and their identifier-to-name maps are equal (the claim as
\* the specification states it).
C23_SameHistory ==
    (Ended(1) /\ st.pc \in {"rerun", "stopped", "raised"}) =>
        /\ VisibleMsgs(Msgs(1)) = VisibleMsgs(st.msgs)
        /\ objs[turn[1].session].tool_names = st.tool_names

-----------------------------------------------------------------------------
(* Identifier and name of an index over one stream *)

\* the identifier (name) of the first fragment of index k that carried one
FirstId(fs, k) ==
    LET S == {j \in 1..Len(fs) : fs[j].index = k /\ fs[j].id # None}
    IN  IF S = {} THEN None ELSE fs[Min(S)].id
FirstName(fs, k) ==
    LET S == {j \in 1..Len(fs) : fs[j].index = k /\ fs[j].name # None}
    IN  IF S = {} THEN None ELSE fs[Min(S)].name

\* C24: for every index the finalized identifier and name are those of the
\* first fragment of the index that carried an identifier (a name), also
\* when a later fragment of the index carries another one (the claim as the
\* specification states it).
C24_FirstIdAndNameFixed ==
    \A t \in Turns : Finalized(t) =>
        LET fs   == ArrivedFrags(arrived[t])
            K    == ArrivedIndexes(fs)
            list == turn[t].tool_calls_list
        IN  \A k \in K :
               /\ list[Rank(K, k)].id = FirstId(fs, k)
               /\ list[Rank(K, k)].name = FirstName(fs, k)

-----------------------------------------------------------------------------
(* tools/_simulator.py: the sensor collector.  start_collector and          *)
(* stop_collector run their bodies under _lock; the collector thread reads  *)
(* only the event _stop.                                                    *)

CollectorRest == <<ChatVars, st, logs, workers>>

SetPc(c, pc) == [collector EXCEPT !.pcs[c] = pc]

\* a call of start_collector is made
StartCall(c) ==
    /\ collector.pcs[c] = "idle"
    /\ collector' = [SetPc(c, "start_lock") EXCEPT !.log = Append(@, "start")]
    /\ UNCHANGED CollectorRest

\* the lock is taken without looking at _started
StartLockedNoCheck(c) ==
    /\ collector.pcs[c] = "start_lock"
    /\ collector.lock = 0
    /\ collector' = [SetPc(c, "start_clear") EXCEPT !.lock = c]
    /\ UNCHANGED CollectorRest

\* with _lock: if _started: return
StartLocked(c) ==
    /\ collector.pcs[c] = "start_lock"
    /\ collector.lock = 0
    /\ collector' = IF collector.started THEN SetPc(c, "idle")
                    ELSE [SetPc(c, "start_clear") EXCEPT !.lock = c]
    /\ UNCHANGED CollectorRest

\* the threads asked to stop and still in their loop when the event is
\* cleared again
Restarted(threads) ==
    [k \in 1..Len(threads) |->
        IF threads[k].pc # "exited" /\ threads[k].asked
        THEN [threads[k] EXCEPT !.restarted = TRUE] ELSE threads[k]]

\* _stop.clear()
StartClear(c) ==
    /\ collector.pcs[c] = "start_clear"
    /\ collector' = [SetPc(c, "start_thread") EXCEPT
                        !.stop = FALSE, !.threads = Restarted(@)]
    /\ UNCHANGED CollectorRest

\* threading.Thread(target=_loop, ...).start(); `asked`: a stop_collector
\* has set the event for this thread, `restarted`: a start_collector has
\* cleared it again since, `late`: the writes the thread has made since it
\* was asked, counted up to 2
StartThread(c) ==
    /\ collector.pcs[c] = "start_thread"
    /\ collector' = [SetPc(c, "start_flag") EXCEPT
                        !.threads = Append(@, [pc |-> "test", asked |-> FALSE,
                                              restarted |-> FALSE, late |-> 0])]
    /\ UNCHANGED CollectorRest

\* _started = True, and the lock is released
StartFlag(c) ==
    /\ collector.pcs[c] = "start_flag"
    /\ collector' = [SetPc(c, "idle") EXCEPT !.started = TRUE, !.lock = 0]
    /\ UNCHANGED CollectorRest

\* a call of stop_collector is made
StopCall(c) ==
    /\ collector.pcs[c] = "idle"
    /\ collector' = [SetPc(c, "stop_lock") EXCEPT !.log = Append(@, "stop")]
    /\ UNCHANGED CollectorRest

\* with _lock: if not _started: return
StopLocked(c) ==
    /\ collector.pcs[c] = "stop_lock"
    /\ collector.lock = 0
    /\ collector' = IF ~collector.started THEN SetPc(c, "idle")
                    ELSE [SetPc(c, "stop_set") EXCEPT !.lock = c]
    /\ UNCHANGED CollectorRest

\* the threads still in their loop are now asked to stop
AskThreads(threads) ==
    [k \in 1..Len(threads) |->
        IF threads[k].pc # "exited"
        THEN [threads[k] EXCEPT !.asked = TRUE] ELSE threads[k]]

\* _started is reset but the event is not set
StopSetForgets(c) ==
    /\ collector.pcs[c] = "stop_set"
    /\ collector' = [SetPc(c, "stop_flag") EXCEPT
                        !.threads = AskThreads(@)]
    /\ UNCHANGED CollectorRest

\* _stop.set()
StopSet(c) ==
    /\ collector.pcs[c] = "stop_set"
    /\ collector' = [SetPc(c, "stop_flag") EXCEPT
                        !.stop = TRUE,
                        !.threads = AskThreads(@)]
    /\ UNCHANGED CollectorRest

\* _started = False, and the lock is released
StopFlag(c) ==
    /\ collector.pcs[c] = "stop_flag"
    /\ collector' = [SetPc(c, "idle") EXCEPT !.started = FALSE, !.lock = 0]
    /\ UNCHANGED CollectorRest

\* _loop: while not _stop.is_set()
LoopTest(k) ==
    /\ k \in 1..Len(collector.threads)
    /\ collector.threads[k].pc = "test"
    /\ collector' = [collector EXCEPT
                        !.threads[k].pc = IF collector.stop THEN "exited" ELSE "write"]
    /\ UNCHANGED CollectorRest

\* _loop: one batch of sensor rows is written (or the write fails and the
\* failure is printed)
LoopWrite(k) ==
    /\ k \in 1..Len(collector.threads)
    /\ collector.threads[k].pc = "write"
    /\ collector' = [collector EXCEPT
                        !.threads[k].pc = "wait",
                        !.threads[k].late =
                            IF collector.threads[k].asked /\ @ < 2 THEN @ + 1 ELSE @]
    /\ UNCHANGED CollectorRest

\* _loop: _stop.wait(timeout=interval) returns, the event set or the
\* interval over
LoopWait(k) ==
    /\ k \in 1..Len(collector.threads)
    /\ collector.threads[k].pc = "wait"
    /\ collector' = [collector EXCEPT !.threads[k].pc = "test"]
    /\ UNCHANGED CollectorRest

LoopStep(k) == LoopTest(k) \/ LoopWrite(k) \/ LoopWait(k)

CallerStep(c) ==
    \/ Len(collector.log) < MaxCalls /\ StartCall(c)
    \/ StartLocked(c)
    \/ StartClear(c)
    \/ StartThread(c)
    \/ StartFlag(c)
    \/ Len(collector.log) < MaxCalls /\ StopCall(c)
    \/ StopLocked(c)
    \/ StopSet(c)
    \/ StopFlag(c)

NextCollector ==
    \/ \E c \in Callers : CallerStep(c)
    \/ \E k \in 1..MaxCalls : LoopStep(k)

SpecCollector == Init /\ [][NextCollector]_vars

\* every collector thread that can take a step eventually takes one
FairCollector ==
    SpecCollector /\ \A k \in 1..MaxCalls : WF_vars(LoopStep(k))

\* the calls that have returned
Returned == Len(collector.log) - Cardinality({c \in Callers : collector.pcs[c] # "idle"})

NoStopCalled == \A j \in 1..Len(collector.log) : collector.log[j] # "stop"

\* C25: as long as no stop_collector has been called, however many calls of
\* start_collector have been made, one after the other or at the same time,
\* at most one collector thread has been started, and exactly one once a
\* call has returned.
C25_OneCollectorThread ==
    NoStopCalled =>
        /\ Len(collector.threads) <= 1
        /\ collector.started => Len(collector.threads) = 1
        /\ Returned >= 1 => collector.started /\ Len(collector.threads) = 1

\* three calls, two of them made at the same time, have all returned
C25_Witness ==
    /\ NoStopCalled
    /\ Len(collector.log) = 3
    /\ Returned = 3
    /\ Len(collector.threads) = 1
    /\ collector.threads[1].pc = "write"

ThreadIds == 1..Len(collector.threads)

\* thread k was asked to stop and no start_collector has cleared the event
\* since
StoppedForGood(k) == collector.threads[k].asked /\ ~collector.threads[k].restarted

C30_AtMostOneLateWrite ==
    \A k \in ThreadIds : StoppedForGood(k) => collector.threads[k].late <= 1

C30_ThreadLeaves(k) ==
    (k \in ThreadIds /\ collector.threads[k].asked)
        ~> (k \in ThreadIds /\ (\/ collector.threads[k].pc = "exited"
                                \/ collector.threads[k].restarted))

\* C30: once stop_collector has set the event for a running collector and
\* no start_collector clears it again, the collector thread writes at most
\* one more batch of rows (the one in progress) and eventually leaves its loop.
C30_StoppedCollectorLeaves ==
    /\ []C30_AtMostOneLateWrite
    /\ \A k \in 1..MaxCalls : C30_ThreadLeaves(k)

\* the thread was writing when it was asked to stop, finished that write and
\* left the loop
C30_Witness ==
    \E k \in ThreadIds :
        /\ StoppedForGood(k)
        /\ collector.threads[k].late = 1
        /\ collector.threads[k].pc = "exited"

-----------------------------------------------------------------------------
(* The end of a turn as its caller sees it *)

\* the turn left the loop because its tenth response still requested tools
StoppedByLimit(t) ==
    /\ turn[t].pc = "done"
    /\ Len(requests[t]) = MaxRounds
    /\ LET a == LastAssistant(Msgs(t))
       IN  a > 0 /\ Msgs(t)[a].by = t /\ Msgs(t)[a].tool_calls # <<>>

\* what a turn that ends on a response without tool calls reports last
NormalEnd(t) ==
    <<sse_event("round_done", <<>>), sse_event("done", <<turn[t].reasoning_on>>)>>

\* C26: a turn stopped by the round limit does not end on the events a turn
\* without pending tool calls ends on (round_done, then done with the same
\* payload).
C26_LimitDistinguishable ==
    \A t \in Turns :
        StoppedByLimit(t) =>
            SubSeq(events[t], Len(events[t]) - 1, Len(events[t])) # NormalEnd(t)

\* C27: every assistant message of a transcript carries text, tool calls or
\* both.
C27_AssistantMessageNotEmpty ==
    \A t \in Turns :
        Started(t) =>
            \A k \in 1..Len(Msgs(t)) :
                Msgs(t)[k].role = "assistant" =>
                    Msgs(t)[k].content # <<>> \/ Msgs(t)[k].tool_calls # <<>>

-----------------------------------------------------------------------------
(* What get_messages shows for the tool results of a transcript *)

\* the positions of the tool-result messages of session object o
ToolResults(o) == {k \in 1..Len(objs[o].msgs) : objs[o].msgs[k].role = "tool"}

\* the display name get_messages computes for the message at position k
Shown(o, k) == Enriched(objs[o], objs[o].msgs[k]).display_name

Recorded(o, k) == objs[o].msgs[k].tool_call_id \in DOMAIN objs[o].tool_names

\* C28 as stated: in every state every tool result's identifier is in the
\* session's identifier-to-name map and get_messages never shows the generic
\* label for a tool result.
C28_NeverPlaceholder ==
    \A o \in 1..Len(objs) : \A k \in ToolResults(o) :
        Recorded(o, k) /\ Shown(o, k) # DisplayNameOrDefault("")

\* C28: in every state, in the middle of a round too, every tool result's
\* identifier is in the session's identifier-to-name map, and get_messages
\* shows the generic label for it exactly when the name recorded under that
\* identifier is None (the call's fragments carried no name).
C28_ToolResultsRecorded ==
    \A o \in 1..Len(objs) : \A k \in ToolResults(o) :
        /\ Recorded(o, k)
        /\ Shown(o, k) = DisplayNameOrDefault("")
               <=> objs[o].tool_names[objs[o].msgs[k].tool_call_id] = None

\* between the two calls of a round: the first call's result is in the
\* transcript under its display name, the second is yet to be dispatched
C28_Witness ==
    \E t \in Turns :
        /\ turn[t].pc = "tool_start"
        /\ turn[t].i = 2
        /\ LET k == Len(Msgs(t))
           IN  /\ Msgs(t)[k].role = "tool"
               /\ Msgs(t)[k].tool_call_id = turn[t].tool_calls_list[1].id
               /\ Shown(turn[t].session, k) = TOOL_DISPLAY_NAMES("water_zone")

-----------------------------------------------------------------------------
(* tools/log_write.py, tools/water.py, tools/log_read.py: the log table.    *)
(* `logs` holds the rows in the order of their ids; a handler runs in one   *)
(* transaction.  workers[t] is the round of tool calls thread t dispatches  *)
(* one after the other; the details text of a row names the call that       *)
(* wrote it.                                                                *)

LogsRest == <<ChatVars, st, collector>>

\* INSERT INTO logs VALUES(NULL, ...): the next row id
NextId(rows) == Len(rows) + 1

\* ToolRegistry.call: json.dumps of the handler's return value, or of the
\* exception it raised
ToolResult(status, rows) == [status |-> status, count |-> Len(rows), logs |-> rows]

Dispatched(t, call, result) ==
    workers' = [workers EXCEPT ![t].calls = Append(@, call),
                               ![t].results = Append(@, result)]

\* the details text of the call thread t dispatches next
Details(t) == <<t, Len(workers[t].calls) + 1>>

\* write_log(operation_type, details)
WriteLog(t, operation_type, outcome) ==
    /\ logs' = IF outcome = "ok"
               THEN Append(logs, [id |-> NextId(logs), op |-> operation_type,
                                  detail |-> Details(t)])
               ELSE logs
    /\ Dispatched(t, [name |-> "write_log", limit |-> 0, operation_type |-> operation_type],
                  IF outcome = "ok" THEN ToolResult("success", <<>>)
                  ELSE ToolResult("error", <<>>))
    /\ UNCHANGED LogsRest

\* water_zone(zone, amount_liters)
WaterZone(t, outcome) ==
    /\ logs' = IF outcome = "ok"
               THEN Append(logs, [id |-> NextId(logs), op |-> "water",
                                  detail |-> Details(t)])
               ELSE logs
    /\ Dispatched(t, [name |-> "water_zone", limit |-> 0, operation_type |-> None],
                  IF outcome = "ok" THEN ToolResult("success", <<>>)
                  ELSE ToolResult("error", <<>>))
    /\ UNCHANGED LogsRest

\* ORDER BY id ASC LIMIT ?
SelectLogsOldestFirst(rows, limit) ==
    SubSeq(rows, 1, Min({limit, Len(rows)}))

\* ORDER BY id DESC LIMIT ?
SelectLogs(rows, limit) ==
    [m \in 1..Min({limit, Len(rows)}) |-> rows[Len(rows) - m + 1]]

\* read_logs(limit, operation_type)
ReadLogs(t, limit, operation_type, outcome) ==
    LET rows == IF operation_type # None
                THEN SelectSeq(logs, LAMBDA r : r.op = operation_type)
                ELSE logs
    IN  /\ Dispatched(t, [name |-> "read_logs", limit |-> limit,
                          operation_type |-> operation_type],
                      IF outcome = "ok" THEN ToolResult("success", SelectLogs(rows, limit))
                      ELSE ToolResult("error", <<>>))
        /\ UNCHANGED <<logs, LogsRest>>

Limits == {1, 2}
DbOutcomes == {"ok", "db error"}

\* the round under observation
RoundCall(t) ==
    /\ Len(workers[t].calls) < MaxRoundCalls
    /\ \E outcome \in DbOutcomes :
          \/ WriteLog(t, "inspect", outcome)
          \/ WaterZone(t, outcome)
          \/ \E limit \in Limits, operation_type \in {None, "water"} :
                ReadLogs(t, limit, operation_type, outcome)

\* another request writes to the log at the same time
OtherCall(t) ==
    /\ Len(workers[t].calls) < MaxRoundCalls
    /\ WriteLog(t, "inspect", "ok")

NextLogs == RoundCall(1) \/ OtherCall(2)

SpecLogs == Init /\ [][NextLogs]_vars

\* the calls of thread 1's round that wrote an entry, and those that read
\* the log without a filter
Writes == {i \in 1..Len(workers[1].calls) :
              /\ workers[1].calls[i].name \in {"write_log", "water_zone"}
              /\ workers[1].results[i].status = "success"}
Reads == {j \in 1..Len(workers[1].calls) :
              /\ workers[1].calls[j].name = "read_logs"
              /\ workers[1].calls[j].operation_type = None
              /\ workers[1].results[j].status = "success"}

\* the row call i of thread 1's round wrote
Entry(i) == CHOOSE r \in {logs[k] : k \in 1..Len(logs)} : r.detail = <<1, i>>

\* C29 as stated: a read listed after a write of the same round has that
\* write's entry as its first entry.
C29_EarlierWriteIsFirst ==
    \A j \in Reads : \A i \in Writes :
        i < j => /\ workers[1].results[j].logs # <<>>
                 /\ workers[1].results[j].logs[1] = Entry(i)

\* C29: a read without filter returns at most `limit` entries, the most
\* recent ones at the time of the read, most recent first; the entry of an
\* earlier successful write of the round is not younger than the first entry
\* returned and is among the entries returned exactly when fewer than `limit`
\* entries were written after it; the entry of the last such write is the
\* first entry unless another request wrote in between.
C29_ReadSeesEarlierWrites ==
    \A j \in Reads :
        LET R     == workers[1].results[j].logs
            limit == workers[1].calls[j].limit
        IN  /\ Len(R) <= limit
            /\ workers[1].results[j].count = Len(R)
            /\ \A m \in 1..Len(R) : R[m] = logs[R[1].id - m + 1]
            /\ R # <<>> => Len(R) = Min({limit, R[1].id})
            /\ \A i \in Writes :
                  i < j =>
                     /\ R # <<>>
                     /\ Entry(i).id <= R[1].id
                     /\ (\E m \in 1..Len(R) : R[m] = Entry(i))
                            <=> R[1].id - Entry(i).id < limit
                     /\ (i = Max({w \in Writes : w < j}) /\ R[1] # Entry(i)) =>
                            /\ R[1].detail[1] # 1
                            /\ R[1].id > Entry(i).id

\* write_log, water_zone, read_logs(limit 1): the read returns the watering
\* entry, the write_log entry is older than the limit allows
C29_Witness ==
    /\ Len(workers[1].calls) = 3
    /\ workers[1].calls[1].name = "write_log"
    /\ workers[1].calls[2].name = "water_zone"
    /\ 3 \in Reads
    /\ Writes = {1, 2}
    /\ workers[1].calls[3].limit = 1
    /\ workers[1].results[3].logs = <<Entry(2)>>
    /\ Entry(1).id < Entry(2).id

-----------------------------------------------------------------------------
(* The collector across stop and start *)

\* the collector threads still in their loop
Alive == {k \in ThreadIds : collector.threads[k].pc # "exited"}

\* is_collector_running(): return _started
is_collector_running == collector.started

\* C31: whatever calls of start_collector and stop_collector were made and
\* however they interleave, at most one collector thread is in its loop, and
\* while no call is in progress is_collector_running() reports True only if
\* there is one; in particular a stop followed by a start before the old
\* thread has seen the event does not leave two loops running.
C31_AtMostOneLoop ==
    /\ Cardinality(Alive) <= 1
    /\ (is_collector_running /\ \A c \in Callers : collector.pcs[c] = "idle")
           => Alive # {}

-----------------------------------------------------------------------------
(* The transcript a finished turn leaves for the next one *)

\* no turn is in progress
Settled == \A t \in Turns : Started(t) => Ended(t)

\* the positions after assistant message a up to the next message that is
\* no tool result
Answers(msgs, a) ==
    {k \in (a + 1)..Len(msgs) :
        \A j \in (a + 1)..k : msgs[j].role = "tool"}

\* C32: when no turn is in progress, every tool call listed in an assistant
\* message is answered by exactly one tool-result message with its
\* identifier before the next user or assistant message.
C32_NoUnansweredCall ==
    Settled =>
        \A o \in 1..Len(objs) :
            LET msgs == objs[o].msgs
            IN  \A a \in 1..Len(msgs) : \A c \in 1..Len(msgs[a].tool_calls) :
                    Cardinality({k \in Answers(msgs, a) :
                        msgs[k].tool_call_id = msgs[a].tool_calls[c].id}) = 1

-----------------------------------------------------------------------------
(* A rejected set_reasoning *)

\* C33: a set_reasoning request answered with status 400 leaves the
\* session's reasoning and reasoning_effort as they were (for a session the
\* request itself created: at their defaults).
C33_RejectedSetReasoningNoChange ==
    [][\A sid \in Sids : \A body \in Bodies :
          (SetReasoning(sid, body) /\ reply'.status = 400) =>
              LET before == GetSessionObjs(sid)[GetSessionRef(sid)]
                  after  == objs'[GetSessionRef(sid)]
              IN  /\ after.reasoning = before.reasoning
                  /\ after.reasoning_effort = before.reasoning_effort]_vars

-----------------------------------------------------------------------------
(* Chat requests that are rejected before the response is streamed, among   *)
(* requests that are served                                                 *)

\* a chat request with any session identifier and any content
AnyChat(t) ==
    \E sid \in Sids \cup {""}, c \in Contents :
        MayAllocate(sid) /\ Chat(t, sid, c)

NextReject ==
    \/ \E sid \in Sids : MayAllocate(sid) /\ CreateSession(sid)
    \/ \E sid \in Sids : DeleteSession(sid)
    \/ \E t \in Turns :
          \/ AnyChat(t)
          \/ CreateFails(t)
          \/ ConcCreateText(t)
          \/ StreamNext(t)
          \/ StreamEnd(t)
          \/ Commit(t)
          \/ Finish(t)

SpecReject == Init /\ [][NextReject]_vars

\* a rejected request holds no session and has issued no model request and
\* no event; without API key no request gets further
C34_State ==
    /\ \A t \in Turns :
          turn[t].pc = "rejected" =>
              /\ turn[t].status = IF API_KEY THEN 400 ELSE 500
              /\ turn[t].session = 0
              /\ requests[t] = <<>>
              /\ events[t] = <<>>
    /\ ~API_KEY => \A t \in Turns : turn[t].pc \in {"idle", "rejected"}

\* the step that rejects a request changes neither the store nor any
\* transcript, and issues no model request
C34_Step ==
    \A t \in Turns :
        (turn[t].pc = "idle" /\ turn'[t].pc = "rejected") =>
            UNCHANGED <<sessions, objs, requests, events, stream>>

\* C34: a chat request rejected before streaming (no API key: 500; empty
\* session_id or empty content after trimming: 400) changes no state: no
\* session is created, no message appended to any transcript, no model
\* request issued.
C34_RejectedChatNoChange == []C34_State /\ [][C34_Step]_vars

\* a request is rejected with 400 while another turn is under way on an
\* existing session
C34_Witness ==
    \E t, u \in Turns :
        /\ turn[t].pc = "rejected"
        /\ turn[t].status = 400
        /\ turn[u].pc = "stream"
        /\ Len(Msgs(u)) = 2
        /\ Len(objs) = 1

-----------------------------------------------------------------------------
(* The reasoning mode of a turn *)

\* the model and mode parameters of a request made with reasoning on or off
UsesMode(request, reasoning_enabled) ==
    /\ request.model = IF reasoning_enabled THEN "REASONING_MODEL" ELSE "MODEL"
    /\ (request.effort # None) <=> reasoning_enabled

\* C35: every model request of a turn that ended with the done event was
\* made with the model and mode parameters of the reasoning_enabled value
\* that event reports, also when set_reasoning was called on the session
\* during the turn.
C35_ReasoningModeFixed ==
    \A t \in Turns :
        turn[t].pc = "done" =>
            \A r \in 1..Len(requests[t]) :
                UsesMode(requests[t][r], Last(events[t]).data[1])

====
